---------------------------- MODULE Spec2Model ----------------------------
(***************************************************************************)
(* A model of the scoring / debiasing / evaluation pipeline of Musibro     *)
(* (src/src/ml/models.py, src/src/ml/debiasing.py,                         *)
(* src/src/ml/evaluation.py).                                              *)
(*                                                                         *)
(* Numbers.  The code computes with floats; the model computes with        *)
(* integers on fixed scales, chosen so that every comparison the code      *)
(* makes has the same outcome:                                             *)
(*   - raw scorer scores and similarities are in tenths (10 = 1.0);        *)
(*   - the hybrid weights are in tenths (4 = 0.4), so a combined score is  *)
(*     in hundredths;                                                      *)
(*   - ratios (Gini, NDCG) are kept as numerator / denominator pairs.      *)
(* Python dicts keep insertion order; they are modelled as sequences of    *)
(* <<key, value>> pairs.  The 'timestamp' field of a record is wall-clock  *)
(* time and is left out.                                                   *)
(***************************************************************************)
EXTENDS Integers, Sequences, FiniteSets, TLC

\* ------------------------------------------------------------------ bounds
\* Number of distinct track ids in the catalogue.
NumItems == 3
\* Largest n_recommendations passed to HybridRecommendationSystem.recommend.
MaxN == 2
\* Longest user_liked_items list passed to recommend.
MaxLiked == 2

Items == 1..NumItems
Users == {"u1", "u2"}
\* The user present in the interactions data; "u2" never is.
KnownUser == "u1"

\* ----------------------------------------------------------- generic helpers
Min2(a, b) == IF a <= b THEN a ELSE b

SeqToSet(s) == {s[i] : i \in 1..Len(s)}

\* Python slice s[:n] for n >= 0.
Take(s, n) == SubSeq(s, 1, Min2(n, Len(s)))

\* The ascending sequence of a finite set of integers.
RECURSIVE SetToAscSeq(_)
SetToAscSeq(S) ==
    IF S = {} THEN <<>>
    ELSE LET m == CHOOSE x \in S : \A y \in S : x <= y
         IN  <<m>> \o SetToAscSeq(S \ {m})

\* 1-based position of the first occurrence of x in s, 0 when absent.
IndexOf(s, x) ==
    IF \E i \in 1..Len(s) : s[i] = x
    THEN CHOOSE i \in 1..Len(s) : s[i] = x /\ \A j \in 1..(i - 1) : s[j] # x
    ELSE 0

\* --------------------------------------------- <<key, score>> pair lists
\* Python's sorted(pairs, key=lambda x: x[1], reverse=True): a stable sort,
\* so pairs of equal score keep their original relative order.
RECURSIVE InsertDesc(_, _)
InsertDesc(x, s) ==
    IF s = <<>> THEN <<x>>
    ELSE IF Head(s)[2] >= x[2] THEN <<Head(s)>> \o InsertDesc(x, Tail(s))
    ELSE <<x>> \o s

RECURSIVE SortedDescUnstable(_)
SortedDescUnstable(s) ==
    IF s = <<>> THEN <<>>
    ELSE InsertDesc(Head(s), SortedDescUnstable(Tail(s)))

RECURSIVE SortedDesc(_)
SortedDesc(s) ==
    IF s = <<>> THEN <<>>
    ELSE InsertDesc(s[Len(s)], SortedDesc(SubSeq(s, 1, Len(s) - 1)))

\* dict.get(key, 0) on a pair list.
DictGet0(d, k) == IF IndexOf([i \in 1..Len(d) |-> d[i][1]], k) = 0 THEN 0
                  ELSE d[IndexOf([i \in 1..Len(d) |-> d[i][1]], k)][2]

DictKeys(d) == {d[i][1] : i \in 1..Len(d)}

\* d[k] = d.get(k, 0) + v : an existing key keeps its place, a new key is
\* appended (insertion order).
DictAdd(d, k, v) ==
    IF k \in DictKeys(d)
    THEN [i \in 1..Len(d) |-> IF d[i][1] = k THEN <<k, d[i][2] + v>> ELSE d[i]]
    ELSE Append(d, <<k, v>>)

\* A blender that overwrites an item's score instead of accumulating it.
RECURSIVE AddWeightedOverwrite(_, _, _)
AddWeightedOverwrite(all, scores, w) ==
    IF scores = <<>> THEN all
    ELSE AddWeightedOverwrite(
            IF Head(scores)[1] \in DictKeys(all)
            THEN [i \in 1..Len(all) |->
                    IF all[i][1] = Head(scores)[1]
                    THEN <<all[i][1], Head(scores)[2] * w>> ELSE all[i]]
            ELSE Append(all, <<Head(scores)[1], Head(scores)[2] * w>>),
            Tail(scores), w)

\* for item_id, score in scores: all[item_id] = all.get(item_id, 0) + score * w
RECURSIVE AddWeighted(_, _, _)
AddWeighted(all, scores, w) ==
    IF scores = <<>> THEN all
    ELSE AddWeighted(DictAdd(all, Head(scores)[1], Head(scores)[2] * w),
                     Tail(scores), w)

\* ======================================================================
\* models.py : the three scorers and the hybrid blender
\* ======================================================================
VARIABLES
    \* HybridRecommendationSystem
    ncf_model,          \* "None" | "trained" | "untrained" (built, never fitted)
                        \* | "unbuilt" (its model attribute is None)
    ncf_predictions,    \* the regressor: encoded item index -> prediction for
                        \* the known user, over the indices seen in training
    user_encoder,       \* sequence of user ids (position = code)
    item_encoder,       \* sequence of item ids (position = code)
    content_fitted,     \* ContentBasedFiltering.similarity_matrix is not None
    content_item_ids,   \* ContentBasedFiltering.item_ids
    similarity_matrix,  \* ContentBasedFiltering.similarity_matrix
    item_popularity,    \* PopularityBasedRecommender.item_popularity (a dict)
    \* the last call of recommend: its arguments and what the caller got
    rec_called, rec_user, rec_liked, rec_n, rec_raised, rec_result,
    \* the locals of that call: cf_scores, cb_scores, pop_scores, all_scores
    rec_cf, rec_cb, rec_pop, rec_all

hybridVars == <<ncf_model, ncf_predictions, user_encoder, item_encoder,
                content_fitted, content_item_ids, similarity_matrix,
                item_popularity, rec_called, rec_user, rec_liked, rec_n,
                rec_raised, rec_result, rec_cf, rec_cb, rec_pop, rec_all>>

\* HybridRecommendationSystem.__init__ default weights, in tenths.
WeightCollaborative == 4
WeightContent == 3
WeightPopularity == 1

\* Values the fitted scorers can hold (tenths).
CfScores == {10, 20}
PopScores == {10, 20}
FeatureVecs == {<<1, 0>>, <<1, 1>>}

Dot(f, g) == f[1] * g[1] + f[2] * g[2]

\* sklearn cosine_similarity of two feature rows, rounded to tenths; a zero
\* row has similarity 0 with everything.
Cosine10(f, g) ==
    LET nn == Dot(f, f) * Dot(g, g)
        d  == Dot(f, g)
    IN  IF nn = 0 \/ d = 0 THEN 0
        ELSE CHOOSE c \in 1..10 :
                /\ (2 * c - 1) * (2 * c - 1) * nn <= 400 * d * d
                /\ (c = 10 \/ 400 * d * d < (2 * c + 1) * (2 * c + 1) * nn)

\* ContentBasedFiltering.fit: the similarity matrix of the feature table.
FitSimilarity(feats) ==
    [i \in 1..Len(feats) |-> [j \in 1..Len(feats) |-> Cosine10(feats[i], feats[j])]]

\* np.argsort(row)[::-1]: indices by ascending value (ties by ascending
\* index), reversed.
ArgsortReversed(row) ==
    LET pairs == [i \in 1..Len(row) |-> <<Len(row) + 1 - i, row[Len(row) + 1 - i]>>]
        sorted == SortedDesc(pairs)
    IN  [i \in 1..Len(sorted) |-> sorted[i][1]]

\* ContentBasedFiltering.get_similar_items, the body of its try block:
\* [raised, value].
GetSimilarItemsBody(item_id, n) ==
    IF ~content_fitted THEN [raised |-> TRUE, value |-> <<>>]
    ELSE IF IndexOf(content_item_ids, item_id) = 0
    THEN [raised |-> FALSE, value |-> <<>>]
    ELSE LET idx == IndexOf(content_item_ids, item_id)
             similarities == similarity_matrix[idx]
             order == ArgsortReversed(similarities)
             similar_indices == SubSeq(order, 2, Min2(n + 1, Len(order)))
         IN  [raised |-> FALSE,
              value |-> [k \in 1..Len(similar_indices) |->
                           <<content_item_ids[similar_indices[k]],
                             similarities[similar_indices[k]]>>]]

\* get_similar_items with its handler: an exception is logged and [] returned.
GetSimilarItems(item_id, n) ==
    LET r == GetSimilarItemsBody(item_id, n)
    IN  IF r.raised THEN <<>> ELSE r.value

\* The inner loop of recommend_for_user without its test for liked items.
RECURSIVE AddSimilarUnfiltered(_, _, _)
AddSimilarUnfiltered(all, similar, liked) ==
    IF similar = <<>> THEN all
    ELSE AddSimilarUnfiltered(DictAdd(all, Head(similar)[1], Head(similar)[2]),
                              Tail(similar), liked)

\* The inner loop of recommend_for_user over one liked item's similar items.
RECURSIVE AddSimilar(_, _, _)
AddSimilar(all, similar, liked) ==
    IF similar = <<>> THEN all
    ELSE AddSimilar(IF Head(similar)[1] \notin SeqToSet(liked)
                    THEN DictAdd(all, Head(similar)[1], Head(similar)[2])
                    ELSE all,
                    Tail(similar), liked)

RECURSIVE AllRecommendations(_, _, _, _)
AllRecommendations(all, todo, liked, n) ==
    IF todo = <<>> THEN all
    ELSE AllRecommendations(
            AddSimilar(all, GetSimilarItems(Head(todo), n * 2), liked),
            Tail(todo), liked, n)

\* ContentBasedFiltering.recommend_for_user
RecommendForUser(liked, n) ==
    IF liked = <<>> THEN <<>>
    ELSE Take(SortedDesc(AllRecommendations(<<>>, liked, liked, n)), n)

\* PopularityBasedRecommender.get_popular_items
GetPopularItems(n) == Take(SortedDesc(item_popularity), n)

\* NeuralCollaborativeFiltering.predict for one user code and the item codes
\* 1..k, the body of its try block: it raises when the regressor is not
\* fitted or a code was not seen in training.
PredictBody(user_idx, k) ==
    IF ncf_model # "trained" \/ user_idx > 1 \/ k > Len(ncf_predictions)
    THEN [raised |-> TRUE, value |-> <<>>]
    ELSE [raised |-> FALSE, value |-> SubSeq(ncf_predictions, 1, k)]

\* predict with its handler: np.array([]) on any exception.
Predict(user_idx, k) ==
    LET r == PredictBody(user_idx, k)
    IN  IF r.raised THEN <<>> ELSE r.value

\* HybridRecommendationSystem._get_collaborative_scores
GetCollaborativeScores(user_id, n) ==
    IF IndexOf(user_encoder, user_id) = 0 THEN <<>>
    ELSE LET predictions == Predict(IndexOf(user_encoder, user_id), Len(item_encoder))
             item_scores == [i \in 1..Len(predictions) |->
                                <<item_encoder[i], predictions[i]>>]
         IN  Take(SortedDesc(item_scores), n)

\* The guard of the collaborative block of recommend (models.py:263).
CollaborativeApplies(user_id) ==
    ncf_model # "None" /\ IndexOf(user_encoder, user_id) # 0

\* A blender that scores an unknown user as the first encoded user.
CfScoresForFallback(user_id, n) ==
    IF ncf_model # "None" /\ user_encoder # <<>>
    THEN GetCollaborativeScores(
            IF IndexOf(user_encoder, user_id) # 0 THEN user_id ELSE user_encoder[1],
            n * 2)
    ELSE <<>>

\* The three score lists recommend asks for, each cut to 2 * n_recommendations.
CfScoresFor(user_id, n) ==
    IF CollaborativeApplies(user_id)
    THEN GetCollaborativeScores(user_id, n * 2)
    ELSE <<>>

CbScoresFor(liked, n) == RecommendForUser(liked, n * 2)

PopScoresFor(n) == GetPopularItems(n * 2)

\* all_scores after the three accumulation loops (models.py:260-276).  The
\* diversity block (models.py:279-283) never runs: diversity_injector is set
\* to None by __init__ and assigned nowhere, so its guard is false whatever
\* diversity_boost is.
AllScores(cf_scores, cb_scores, pop_scores) ==
    AddWeighted(
        AddWeighted(
            AddWeighted(<<>>, cf_scores, WeightCollaborative),
            cb_scores, WeightContent),
        pop_scores, WeightPopularity)

\* A blender whose final slice keeps one record too many.
TopNOffByOne(all, n) == Take(SortedDesc(all), n + 1)

\* sorted(all_scores.items(), key=score, reverse=True)[:n_recommendations]
TopN(all, n) == Take(SortedDesc(all), n)

\* HybridRecommendationSystem.recommend, the body of its try block: whether
\* it raised, the list it returns, and its locals cf_scores, cb_scores,
\* pop_scores and all_scores.
RecommendBody(user_id, liked, n) ==
    LET cf  == CfScoresFor(user_id, n)
        cb  == CbScoresFor(liked, n)
        pop == PopScoresFor(n)
        all == AllScores(cf, cb, pop)
    IN  [raised |-> FALSE, value |-> TopN(all, n),
         cf_scores |-> cf, cb_scores |-> cb, pop_scores |-> pop,
         all_scores |-> all]

\* recommend with its handler: [] on any exception, nothing propagates.
RecommendCall(user_id, liked, n) ==
    LET r == RecommendBody(user_id, liked, n)
    IN  IF r.raised THEN [r EXCEPT !.raised = FALSE, !.value = <<>>] ELSE r

recVars == <<rec_called, rec_user, rec_liked, rec_n, rec_raised, rec_result,
             rec_cf, rec_cb, rec_pop, rec_all>>

modelVars == <<ncf_model, ncf_predictions, user_encoder, item_encoder,
               content_fitted, content_item_ids, similarity_matrix,
               item_popularity>>

\* HybridRecommendationSystem.__init__
HybridInit ==
    /\ ncf_model = "None"
    /\ ncf_predictions = <<>>
    /\ user_encoder = <<>>
    /\ item_encoder = <<>>
    /\ content_fitted = FALSE
    /\ content_item_ids = <<>>
    /\ similarity_matrix = <<>>
    /\ item_popularity = <<>>
    /\ rec_called = FALSE
    /\ rec_user = KnownUser
    /\ rec_liked = <<>>
    /\ rec_n = 0
    /\ rec_raised = FALSE
    /\ rec_result = <<>>
    /\ rec_cf = <<>> /\ rec_cb = <<>> /\ rec_pop = <<>> /\ rec_all = <<>>

\* HybridRecommendationSystem.fit on interactions of KnownUser with the items
\* `rated` and a feature table over all items.  trained: MLPRegressor.fit
\* succeeded (train swallows a failure); contentOk: ContentBasedFiltering.fit
\* got past its 'id' column lookup (it swallows a failure and keeps the old
\* matrix); popOk: likewise for PopularityBasedRecommender.fit.  The
\* regressor's predictions and the popularity scores are whatever the data
\* gives: any values.  The model fits a system once: a second fit overwrites
\* every field a first one set, so it reaches no state the first cannot.
Fit(rated, preds, pops, feats, trained, contentOk, popOk) ==
    /\ ncf_model = "None" /\ user_encoder = <<>> /\ ~rec_called
    /\ user_encoder' = <<KnownUser>>
    /\ item_encoder' = SetToAscSeq(rated)
    /\ ncf_model' = IF trained THEN "trained" ELSE "untrained"
    /\ ncf_predictions' = IF trained THEN preds ELSE <<>>
    /\ IF contentOk
       THEN /\ content_fitted' = TRUE
            /\ content_item_ids' = [i \in 1..NumItems |-> i]
            /\ similarity_matrix' = FitSimilarity(feats)
       ELSE UNCHANGED <<content_fitted, content_item_ids, similarity_matrix>>
    /\ item_popularity' = IF popOk
                          THEN [i \in 1..Cardinality(rated) |->
                                   <<SetToAscSeq(rated)[i], pops[i]>>]
                          ELSE item_popularity
    /\ UNCHANGED recVars

\* The item sets the interactions data can cover: the first k catalogue items.
RatedSets == {1..k : k \in 1..NumItems}

FitAny ==
    /\ ncf_model = "None" /\ user_encoder = <<>> /\ ~rec_called
    /\ \E rated \in RatedSets :
       \E preds \in [1..Cardinality(rated) -> CfScores] :
       \E pops \in [1..Cardinality(rated) -> PopScores] :
       \E feats \in [1..NumItems -> FeatureVecs] :
       \E trained \in BOOLEAN :
       \E contentOk \in BOOLEAN :
       \E popOk \in BOOLEAN :
           Fit(rated, preds, pops, feats, trained, contentOk, popOk)

\* fit on interactions that lack the rating column: the encoders are assigned
\* (models.py:230-231), line 236 raises, the handler logs and returns.
FitFails(rated) ==
    /\ ncf_model = "None" /\ user_encoder = <<>> /\ ~rec_called
    /\ user_encoder' = <<KnownUser>>
    /\ item_encoder' = SetToAscSeq(rated)
    /\ UNCHANGED <<ncf_model, ncf_predictions, content_fitted, content_item_ids,
                   similarity_matrix, item_popularity>>
    /\ UNCHANGED recVars

FitFailsAny == \E rated \in RatedSets : FitFails(rated)

\* The user_liked_items lists the client passes: ascending, no repeats.
LikedLists ==
    {SetToAscSeq(S) : S \in {T \in SUBSET Items : Cardinality(T) <= MaxLiked}}

\* A call of recommend by the client.
Recommend(user_id, liked, n) ==
    /\ ~rec_called
    /\ rec_called' = TRUE
    /\ rec_user' = user_id
    /\ rec_liked' = liked
    /\ rec_n' = n
    /\ \E r \in {RecommendCall(user_id, liked, n)} :
          /\ rec_raised' = r.raised
          /\ rec_result' = r.value
          /\ rec_cf' = r.cf_scores
          /\ rec_cb' = r.cb_scores
          /\ rec_pop' = r.pop_scores
          /\ rec_all' = r.all_scores
    /\ UNCHANGED modelVars

RecommendAny ==
    /\ ~rec_called
    /\ \E user_id \in Users :
       \E liked \in LikedLists :
       \E n \in 0..MaxN :
           Recommend(user_id, liked, n)

\* The client has consumed the returned list and is ready to call again.
RecommendReturn ==
    /\ rec_called
    /\ rec_called' = FALSE
    /\ rec_user' = KnownUser
    /\ rec_liked' = <<>>
    /\ rec_n' = 0
    /\ rec_raised' = FALSE
    /\ rec_result' = <<>>
    /\ rec_cf' = <<>> /\ rec_cb' = <<>> /\ rec_pop' = <<>> /\ rec_all' = <<>>
    /\ UNCHANGED modelVars

\* ------------------------------------------------- claims on recommend
RecIds == [i \in 1..Len(rec_result) |-> rec_result[i][1]]

\* The ids each scorer proposed for the last call.
ProposedIds == DictKeys(rec_cf) \cup DictKeys(rec_cb) \cup DictKeys(rec_pop)

\* C1: recommend returns at most N records, no item id in two of them, every
\* id proposed by one of the three scorers, scores in non-increasing order.
C1_BlenderOutputShape ==
    rec_called =>
        /\ Len(rec_result) <= rec_n
        /\ \A i, j \in 1..Len(rec_result) : i # j => RecIds[i] # RecIds[j]
        /\ \E proposed \in {ProposedIds} :
              \A i \in 1..Len(rec_result) : RecIds[i] \in proposed
        /\ \A i \in 1..(Len(rec_result) - 1) : rec_result[i][2] >= rec_result[i + 1][2]

\* A call that filled all N places, with a strict drop in score, from more
\* than N candidates.
C1_Witness ==
    /\ rec_called /\ rec_n = MaxN /\ Len(rec_result) = rec_n
    /\ rec_result[1][2] > rec_result[2][2]
    /\ Cardinality(ProposedIds) > rec_n

\* What each scorer holds for an item, whatever list it would return.
CfHeld(user_id) ==
    IF CollaborativeApplies(user_id) /\ ncf_model = "trained"
       /\ Len(item_encoder) <= Len(ncf_predictions)
    THEN [i \in 1..Len(item_encoder) |-> <<item_encoder[i], ncf_predictions[i]>>]
    ELSE <<>>

\* The content scorer's aggregate for every item, nothing cut.
CbHeld(liked) == RecommendForUser(liked, NumItems)

PopHeld == item_popularity

\* Number of entries of a scorer's table that a stable descending sort puts
\* in front of entry i.
RankIn(table, i) ==
    Cardinality({j \in 1..Len(table) :
                    \/ table[j][2] > table[i][2]
                    \/ table[j][2] = table[i][2] /\ j < i})

\* The score of item in table when it is among the table's m best, else 0.
TermWithin(table, item, m) ==
    LET ids == [i \in 1..Len(table) |-> table[i][1]]
    IN  IF IndexOf(ids, item) # 0 /\ RankIn(table, IndexOf(ids, item)) < m
        THEN table[IndexOf(ids, item)][2]
        ELSE 0

\* C2 as stated: every returned score is w_cf * cf + w_content * content +
\* w_pop * popularity over the scores the three scorers hold for the item, a
\* term being 0 only when the scorer holds none.
C2_FullScores ==
    rec_called =>
        \E cf \in {CfHeld(rec_user)} : \E cb \in {CbHeld(rec_liked)} :
            \A i \in 1..Len(rec_result) :
                rec_result[i][2] =
                    WeightCollaborative * DictGet0(cf, RecIds[i])
                  + WeightContent * DictGet0(cb, RecIds[i])
                  + WeightPopularity * DictGet0(PopHeld, RecIds[i])

\* C2 amended: each term is the item's score in that scorer when the item is
\* among the scorer's 2N best (for the content scorer: in the list it
\* returns for 2N), and 0 otherwise.
C2_TruncatedScores ==
    rec_called =>
        \E cf \in {CfHeld(rec_user)} :
            \A i \in 1..Len(rec_result) :
                rec_result[i][2] =
                    WeightCollaborative * TermWithin(cf, RecIds[i], 2 * rec_n)
                  + WeightContent * DictGet0(rec_cb, RecIds[i])
                  + WeightPopularity * TermWithin(PopHeld, RecIds[i], 2 * rec_n)

\* A returned item that the popularity scorer holds a score for but that is
\* outside its 2N best, and that the collaborative and content scorers scored.
C2_Witness ==
    /\ rec_called /\ Len(rec_result) > 0
    /\ \E i \in 1..Len(rec_result) :
          /\ DictGet0(PopHeld, RecIds[i]) > 0
          /\ TermWithin(PopHeld, RecIds[i], 2 * rec_n) = 0
          /\ TermWithin(CfHeld(rec_user), RecIds[i], 2 * rec_n) > 0
          /\ DictGet0(rec_cb, RecIds[i]) > 0

\* The order in which candidates are first scored: collaborative list, then
\* content list, then popularity list.
ScoringOrder ==
    [i \in 1..Len(rec_cf) |-> rec_cf[i][1]]
        \o [i \in 1..Len(rec_cb) |-> rec_cb[i][1]]
        \o [i \in 1..Len(rec_pop) |-> rec_pop[i][1]]

\* a is ranked before b: higher combined score, or equal and scored first.
RankedBefore(all, order, a, b) ==
    \/ DictGet0(all, a) > DictGet0(all, b)
    \/ /\ DictGet0(all, a) = DictGet0(all, b)
       /\ IndexOf(order, a) < IndexOf(order, b)

\* C3: the result is the N candidates of highest combined score, ties going
\* to the candidate scored first, in that order.
C3_TopNStable ==
    rec_called =>
        \E all \in {rec_all} :
        \E order \in {ScoringOrder} :
            /\ Len(rec_result) = Min2(rec_n, Cardinality(SeqToSet(order)))
            /\ \A i \in 1..Len(rec_result) :
                  rec_result[i][2] = DictGet0(all, RecIds[i])
            /\ \A i, j \in 1..Len(rec_result) :
                  i < j => RankedBefore(all, order, RecIds[i], RecIds[j])
            /\ \A i \in 1..Len(rec_result) :
                  \A c \in SeqToSet(order) \ SeqToSet(RecIds) :
                      RankedBefore(all, order, RecIds[i], c)

\* Truncation cut between two candidates of equal combined score.
C3_Witness ==
    /\ rec_called /\ Len(rec_result) > 0
    /\ \E c \in SeqToSet(ScoringOrder) \ SeqToSet(RecIds) :
          DictGet0(rec_all, c) = rec_result[Len(rec_result)][2]

NeverFitted ==
    /\ ncf_model = "None" /\ ~content_fitted /\ item_popularity = <<>>

\* C4: no error reaches the caller; a source that is absent or unfitted (or,
\* for the collaborative one, does not know the user) adds nothing to any
\* score; a system never fitted returns [].
C4_MissingSourceIsSilent ==
    rec_called =>
        \E cf \in {rec_cf} : \E cb \in {rec_cb} : \E pop \in {rec_pop} :
            /\ ~rec_raised
            /\ ~CollaborativeApplies(rec_user) =>
                  \A i \in 1..Len(rec_result) :
                      rec_result[i][2] = WeightContent * DictGet0(cb, RecIds[i])
                                       + WeightPopularity * DictGet0(pop, RecIds[i])
            /\ ~content_fitted =>
                  \A i \in 1..Len(rec_result) :
                      rec_result[i][2] = WeightCollaborative * DictGet0(cf, RecIds[i])
                                       + WeightPopularity * DictGet0(pop, RecIds[i])
            /\ item_popularity = <<>> =>
                  \A i \in 1..Len(rec_result) :
                      rec_result[i][2] = WeightCollaborative * DictGet0(cf, RecIds[i])
                                       + WeightContent * DictGet0(cb, RecIds[i])
            /\ NeverFitted => rec_result = <<>>

\* A call for the unknown user on a system whose three models are fitted,
\* returning records.
C4_Witness ==
    /\ rec_called /\ rec_user # KnownUser /\ ncf_model = "trained"
    /\ content_fitted /\ item_popularity # <<>> /\ rec_liked # <<>>
    /\ Len(rec_result) = MaxN

\* ======================================================================
\* ContentBasedFiltering called on its own (src/ml/models.py)
\* ======================================================================
VARIABLES
    cb_called,    \* "none", "get_similar_items" or "recommend_for_user"
    cb_item,      \* item_id argument of get_similar_items
    cb_liked,     \* user_liked_items argument of recommend_for_user
    cb_n,         \* n_recommendations argument
    cb_result     \* the list of <<item id, similarity>> returned

contentCallVars == <<cb_called, cb_item, cb_liked, cb_n, cb_result>>

ContentIdle ==
    /\ cb_called = "none"
    /\ cb_item = 0
    /\ cb_liked = <<>>
    /\ cb_n = 0
    /\ cb_result = <<>>

\* Feature rows of the table: two directions, and a row proportional to one
\* of them.
ContentFeatureVecs == FeatureVecs \cup {<<2, 2>>}

\* ContentBasedFiltering.fit on a feature table over all items.  The model
\* fits once: a second fit overwrites item_ids and the matrix.
FitContent(feats) ==
    /\ ~content_fitted /\ cb_called = "none"
    /\ content_fitted' = TRUE
    /\ content_item_ids' = [i \in 1..NumItems |-> i]
    /\ similarity_matrix' = FitSimilarity(feats)
    /\ UNCHANGED <<ncf_model, ncf_predictions, user_encoder, item_encoder,
                   item_popularity>>
    /\ UNCHANGED <<recVars, contentCallVars>>

FitContentAny == \E feats \in [1..NumItems -> ContentFeatureVecs] : FitContent(feats)

\* get_similar_items(item_id, n) called by a client; an id past NumItems is
\* not in the table.
GetSimilarItemsCall(item_id, n) ==
    /\ cb_called = "none"
    /\ cb_called' = "get_similar_items"
    /\ cb_item' = item_id
    /\ cb_liked' = <<>>
    /\ cb_n' = n
    /\ cb_result' = GetSimilarItems(item_id, n)
    /\ UNCHANGED <<modelVars, recVars>>

GetSimilarItemsAny ==
    \E item_id \in 1..(NumItems + 1) : \E n \in 0..MaxN :
        GetSimilarItemsCall(item_id, n)

\* recommend_for_user(user_liked_items, n) called by a client.
RecommendForUserCall(liked, n) ==
    /\ cb_called = "none"
    /\ cb_called' = "recommend_for_user"
    /\ cb_item' = 0
    /\ cb_liked' = liked
    /\ cb_n' = n
    /\ cb_result' = RecommendForUser(liked, n)
    /\ UNCHANGED <<modelVars, recVars>>

RecommendForUserAny ==
    \E liked \in LikedLists : \E n \in 0..MaxN :
        RecommendForUserCall(liked, n)

\* The client has consumed the list.
ContentReturn ==
    /\ cb_called # "none"
    /\ cb_called' = "none"
    /\ cb_item' = 0
    /\ cb_liked' = <<>>
    /\ cb_n' = 0
    /\ cb_result' = <<>>
    /\ UNCHANGED <<modelVars, recVars>>

\* ------------------------------------------------ content-filter claims
\* The returned similarities do not increase along the list.
NonIncreasing(result) ==
    \A i \in 1..Len(result) : \A j \in 1..Len(result) :
        i < j => result[i][2] >= result[j][2]

\* C17: for any fitted feature table, get_similar_items(item_id, n) never
\* includes item_id itself and returns at most n items in non-increasing
\* order of similarity.
C17_SimilarExcludesSelf ==
    (cb_called = "get_similar_items" /\ content_fitted) =>
        /\ \A k \in 1..Len(cb_result) : cb_result[k][1] # cb_item
        /\ Len(cb_result) <= cb_n
        /\ NonIncreasing(cb_result)

\* The ids of a returned list.
ResultIds(result) == {result[k][1] : k \in 1..Len(result)}

\* The similarity get_similar_items(liked_id, 2 * n) reports for item_id,
\* 0 when item_id is not in the list it returns.
ReportedSimilarity(liked_id, item_id, n) ==
    LET similar == GetSimilarItems(liked_id, n * 2)
        hits == {k \in 1..Len(similar) : similar[k][1] = item_id}
    IN  IF hits = {} THEN 0 ELSE similar[CHOOSE k \in hits : TRUE][2]

\* The reported similarity of item_id summed over the liked items.
RECURSIVE SummedSimilarity(_, _, _)
SummedSimilarity(liked, item_id, n) ==
    IF liked = <<>> THEN 0
    ELSE ReportedSimilarity(Head(liked), item_id, n)
             + SummedSimilarity(Tail(liked), item_id, n)

MaxEvalRecs == 2
\* Longest ground-truth list handed to the accuracy metrics.
MaxGroundTruth == 2
\* Longest list of values handed to _calculate_gini_coefficient.
MaxValues == 4
\* Largest value in such a list.
MaxValue == 2

\* The default cut-off k of _calculate_ndcg.
NdcgK == 10

\* round(10^6 / math.log2(i + 2)) for i = 0..9, indexed from 1.
Discount ==
    <<1000000, 630930, 500000, 430677, 386853,
      356207, 333333, 315465, 301030, 289065>>

RatMul(a, b) == <<a[1] * b[1], a[2] * b[2]>>
RatAdd(a, b) == <<a[1] * b[2] + b[1] * a[2], a[2] * b[2]>>
\* a / b for b > 0.
RatDiv(a, b) == <<a[1] * b[2], a[2] * b[1]>>
RatIsZero(a) == a[1] = 0
RatIsOne(a) == a[1] = a[2]

RECURSIVE SumSeq(_)
SumSeq(s) == IF s = <<>> THEN 0 ELSE Head(s) + SumSeq(Tail(s))

\* Python's sorted(values) on numbers.
RECURSIVE InsertAsc(_, _)
InsertAsc(x, s) ==
    IF s = <<>> THEN <<x>>
    ELSE IF Head(s) <= x THEN <<Head(s)>> \o InsertAsc(x, Tail(s))
    ELSE <<x>> \o s

RECURSIVE SortedAsc(_)
SortedAsc(s) ==
    IF s = <<>> THEN <<>>
    ELSE InsertAsc(s[Len(s)], SortedAsc(SubSeq(s, 1, Len(s) - 1)))

VARIABLES
    ev_called,      \* "none", or the evaluator method in progress
    ev_values,      \* argument of _calculate_gini_coefficient
    ev_gini,        \* its result
    ev_recs,        \* recommendations argument of the accuracy metrics
    ev_gt,          \* ground_truth argument of the accuracy metrics
    ev_ndcg,        \* result of _calculate_ndcg
    ev_metrics,     \* result of _calculate_accuracy_metrics
    ev_results,     \* argument of _calculate_overall_quality_score
    ev_quality      \* its result: <<>> for {}, else <<overall_score>>

evalVars == <<ev_called, ev_values, ev_gini, ev_recs, ev_gt, ev_ndcg,
              ev_metrics, ev_results, ev_quality>>

\* ------------------------------------------- _calculate_gini_coefficient
\* The body of the try block: the fraction it returns, or raised when the
\* division is by zero.
GiniCoefficientBody(values) ==
    IF values = <<>> \/ Len(values) = 1
    THEN [raised |-> FALSE, value |-> <<0, 1>>]
    ELSE LET sorted_values == SortedAsc(values)
             n == Len(sorted_values)
             weighted == SumSeq([j \in 1..n |->
                                    (n + 1 - (j - 1)) * sorted_values[j]])
             total == SumSeq(sorted_values)
         IN  IF n * total = 0
             THEN [raised |-> TRUE, value |-> <<0, 1>>]
             ELSE [raised |-> FALSE,
                   value |-> <<n + 1 - 2 * weighted, n * total>>]

GiniCoefficient(values) ==
    LET r == GiniCoefficientBody(values)
    IN  IF r.raised THEN <<0, 1>> ELSE r.value

\* --------------------------------------------------------- _calculate_ndcg
\* gt.get('rating', 1): a ground-truth entry carries rating <<r>> or <<>>.
RatingOf(gt) == IF gt.rating = <<>> THEN 1 ELSE gt.rating[1]

\* d[k] = v on a <<key, value>> pair list: an existing key keeps its place.
DictPut(d, k, v) ==
    IF \E i \in 1..Len(d) : d[i][1] = k
    THEN [i \in 1..Len(d) |-> IF d[i][1] = k THEN <<k, v>> ELSE d[i]]
    ELSE Append(d, <<k, v>>)

\* {gt['item_id']: gt.get('rating', 1) for gt in ground_truth}
RECURSIVE GroundTruthIds(_)
GroundTruthIds(ground_truth) ==
    IF ground_truth = <<>> THEN <<>>
    ELSE LET last == ground_truth[Len(ground_truth)]
         IN  DictPut(GroundTruthIds(SubSeq(ground_truth, 1,
                                           Len(ground_truth) - 1)),
                     last.item_id, RatingOf(last))

\* A faulty loop that does not count a relevance of 1.
DcgStrict(recommendations, relevances, k) ==
    LET top == Take(recommendations, k)
    IN  SumSeq([i \in 1..Len(top) |->
                   IF DictGet0(relevances, top[i].item_id) > 1
                   THEN DictGet0(relevances, top[i].item_id) * Discount[i]
                   ELSE 0])

\* The loop over recommendations[:k].
Dcg(recommendations, relevances, k) ==
    LET top == Take(recommendations, k)
    IN  SumSeq([i \in 1..Len(top) |->
                   IF DictGet0(relevances, top[i].item_id) > 0
                   THEN DictGet0(relevances, top[i].item_id) * Discount[i]
                   ELSE 0])

\* sorted(ground_truth_ids.values(), reverse=True)[:k] summed with discounts.
Idcg(relevances, k) ==
    LET ideal_relevances == Take(SortedDesc(relevances), k)
    IN  SumSeq([i \in 1..Len(ideal_relevances) |->
                   ideal_relevances[i][2] * Discount[i]])

Ndcg(recommendations, ground_truth) ==
    LET relevances == GroundTruthIds(ground_truth)
        dcg == Dcg(recommendations, relevances, NdcgK)
        idcg == Idcg(relevances, NdcgK)
    IN  IF idcg > 0 THEN <<dcg, idcg>> ELSE <<0, 1>>

\* --------------------------------------------- _calculate_accuracy_metrics
\* A metrics dict: the set of its keys and the values of the four scores.
EmptyMetrics ==
    [keys |-> {}, precision |-> <<0, 1>>, recall |-> <<0, 1>>,
     f1 |-> <<0, 1>>, ndcg |-> <<0, 1>>]

ZeroMetrics ==
    [keys |-> {"precision", "recall", "f1", "ndcg"},
     precision |-> <<0, 1>>, recall |-> <<0, 1>>,
     f1 |-> <<0, 1>>, ndcg |-> <<0, 1>>]

FullKeys ==
    {"precision", "recall", "f1", "ndcg", "true_positives",
     "recommended_count", "ground_truth_count"}

F1(precision, recall) ==
    IF RatAdd(precision, recall)[1] > 0
    THEN RatDiv(RatMul(<<2, 1>>, RatMul(precision, recall)),
                RatAdd(precision, recall))
    ELSE <<0, 1>>

\* A faulty body without the empty-ground-truth return and without the
\* guard on the recall division.
AccuracyMetricsBodyUnguarded(recommendations, ground_truth) ==
    LET recommended_ids == {recommendations[i].item_id :
                               i \in 1..Len(recommendations)}
        ground_truth_ids == {ground_truth[i].item_id :
                                i \in 1..Len(ground_truth)}
        true_positives == Cardinality(recommended_ids \cap ground_truth_ids)
        precision == IF recommended_ids # {}
                     THEN <<true_positives, Cardinality(recommended_ids)>>
                     ELSE <<0, 1>>
        recall == <<true_positives, Cardinality(ground_truth_ids)>>
    IN  IF ground_truth_ids = {}
        THEN [raised |-> TRUE, value |-> EmptyMetrics]
        ELSE [raised |-> FALSE,
              value |-> [keys |-> FullKeys, precision |-> precision,
                         recall |-> recall, f1 |-> F1(precision, recall),
                         ndcg |-> Ndcg(recommendations, ground_truth)]]

\* The body of the try block.
AccuracyMetricsBody(recommendations, ground_truth) ==
    IF ground_truth = <<>>
    THEN [raised |-> FALSE, value |-> ZeroMetrics]
    ELSE LET recommended_ids == {recommendations[i].item_id :
                                    i \in 1..Len(recommendations)}
             ground_truth_ids == {ground_truth[i].item_id :
                                     i \in 1..Len(ground_truth)}
             true_positives ==
                 Cardinality(recommended_ids \cap ground_truth_ids)
             precision == IF recommended_ids # {}
                          THEN <<true_positives, Cardinality(recommended_ids)>>
                          ELSE <<0, 1>>
             recall == IF ground_truth_ids # {}
                       THEN <<true_positives, Cardinality(ground_truth_ids)>>
                       ELSE <<0, 1>>
         IN  [raised |-> FALSE,
              value |-> [keys |-> FullKeys, precision |-> precision,
                         recall |-> recall, f1 |-> F1(precision, recall),
                         ndcg |-> Ndcg(recommendations, ground_truth)]]

AccuracyMetrics(recommendations, ground_truth) ==
    LET r == AccuracyMetricsBody(recommendations, ground_truth)
    IN  IF r.raised THEN EmptyMetrics ELSE r.value

\* ------------------------------------------------------ evaluator inputs
ValueLists == UNION {[1..l -> 0..MaxValue] : l \in 0..MaxValues}

\* A rating key that is absent, or a rating of -1, 0 or 2.
Ratings == {<<>>, <<-1>>, <<0>>, <<2>>}

\* Eleven recommendations, one more than the cut-off, in both orders.
LongRecLists ==
    {[i \in 1..(NdcgK + 1) |-> [item_id |-> i]],
     [i \in 1..(NdcgK + 1) |-> [item_id |-> NdcgK + 2 - i]]}

EvalRecLists ==
    UNION {[1..l -> [item_id : Items]] : l \in 0..MaxEvalRecs}
        \cup LongRecLists

\* Eleven ground-truth items: rating 2, nine default ratings, then tail.
LongGroundTruth(tail) ==
    [i \in 1..(NdcgK + 1) |->
        [item_id |-> i,
         rating |-> IF i = 1 THEN <<2>>
                    ELSE IF i = NdcgK + 1 THEN tail ELSE <<>>]]

\* Ground-truth lists: entries in non-decreasing item id order, so that an
\* item may be listed twice, with any ratings.
GroundTruthLists ==
    {gt \in UNION {[1..l -> [item_id : Items, rating : Ratings]] :
                      l \in 0..MaxGroundTruth} :
        \A i \in 1..(Len(gt) - 1) : gt[i].item_id <= gt[i + 1].item_id}
        \cup {LongGroundTruth(<<>>), LongGroundTruth(<<-1>>)}

\* ------------------------------------------ _calculate_overall_quality_score
\* The five metrics the score reads from evaluation_results, in hundredths;
\* <<>> when the metric (or its whole section) is missing.  The weights are
\* in hundredths too, so the score is in units of 1e-4.
WeightAccuracy == 30
WeightDiversity == 25
WeightNovelty == 20
WeightCoverage == 15
WeightBiasPenalty == 10

NoResults ==
    [f1 |-> <<>>, intra_list_diversity |-> <<>>, combined_novelty |-> <<>>,
     genre_coverage |-> <<>>, overall_bias_score |-> <<>>]

\* evaluation_results.get(section, {}).get(metric, 0)
MetricOr0(metric) == IF metric = <<>> THEN 0 ELSE metric[1]

\* A score that is not normalised.
ClampUnitOmitted(quality_score) == quality_score

\* max(0, min(1, quality_score))
ClampUnit(quality_score) == (IF Min2(10000, quality_score) < 0 THEN 0
                             ELSE Min2(10000, quality_score))

\* _calculate_overall_quality_score: the 'overall_score' of its result.
OverallQualityScore(evaluation_results) ==
    LET accuracy_score == MetricOr0(evaluation_results.f1)
        diversity_score == MetricOr0(evaluation_results.intra_list_diversity)
        novelty_score == MetricOr0(evaluation_results.combined_novelty)
        coverage_score == MetricOr0(evaluation_results.genre_coverage)
        bias_score == MetricOr0(evaluation_results.overall_bias_score)
        quality_score ==
            accuracy_score * WeightAccuracy
              + diversity_score * WeightDiversity
              + novelty_score * WeightNovelty
              + coverage_score * WeightCoverage
              - bias_score * WeightBiasPenalty
    IN  <<ClampUnit(quality_score)>>

\* Metric values: missing, or a number inside or outside [0, 1].
MetricValues == {<<>>, <<-100>>, <<0>>, <<50>>, <<100>>}
BiasValues == {<<>>, <<-100>>, <<0>>, <<100>>, <<300>>}

EvalInit ==
    /\ ev_called = "none"
    /\ ev_values = <<>>
    /\ ev_gini = <<0, 1>>
    /\ ev_recs = <<>>
    /\ ev_gt = <<>>
    /\ ev_ndcg = <<0, 1>>
    /\ ev_metrics = EmptyMetrics
    /\ ev_results = NoResults
    /\ ev_quality = <<>>

CalculateGiniCoefficient ==
    /\ ev_called = "none"
    /\ \E values \in ValueLists :
        /\ ev_called' = "gini"
        /\ ev_values' = values
        /\ ev_gini' = GiniCoefficient(values)
    /\ UNCHANGED <<ev_recs, ev_gt, ev_ndcg, ev_metrics, ev_results, ev_quality>>

CalculateNdcg ==
    /\ ev_called = "none"
    /\ \E recommendations \in EvalRecLists :
       \E ground_truth \in GroundTruthLists :
        /\ ev_called' = "ndcg"
        /\ ev_recs' = recommendations
        /\ ev_gt' = ground_truth
        /\ ev_ndcg' = Ndcg(recommendations, ground_truth)
    /\ UNCHANGED <<ev_values, ev_gini, ev_metrics, ev_results, ev_quality>>

CalculateAccuracyMetrics ==
    /\ ev_called = "none"
    /\ \E recommendations \in EvalRecLists :
       \E ground_truth \in GroundTruthLists :
        /\ ev_called' = "accuracy"
        /\ ev_recs' = recommendations
        /\ ev_gt' = ground_truth
        /\ ev_metrics' = AccuracyMetrics(recommendations, ground_truth)
    /\ UNCHANGED <<ev_values, ev_gini, ev_ndcg, ev_results, ev_quality>>

\* The call returns; the evaluator keeps nothing of it.
CalculateOverallQualityScore ==
    /\ ev_called = "none"
    /\ \E f1 \in MetricValues :
       \E intra_list_diversity \in MetricValues :
       \E combined_novelty \in MetricValues :
       \E genre_coverage \in MetricValues :
       \E overall_bias_score \in BiasValues :
       \E evaluation_results \in
            {[f1 |-> f1, intra_list_diversity |-> intra_list_diversity,
              combined_novelty |-> combined_novelty,
              genre_coverage |-> genre_coverage,
              overall_bias_score |-> overall_bias_score]} :
        /\ ev_called' = "overall_quality"
        /\ ev_results' = evaluation_results
        /\ ev_quality' = OverallQualityScore(evaluation_results)
    /\ UNCHANGED <<ev_values, ev_gini, ev_recs, ev_gt, ev_ndcg, ev_metrics>>

EvalReturn ==
    /\ ev_called # "none"
    /\ ev_called' = "none"
    /\ ev_values' = <<>>
    /\ ev_gini' = <<0, 1>>
    /\ ev_recs' = <<>>
    /\ ev_gt' = <<>>
    /\ ev_ndcg' = <<0, 1>>
    /\ ev_metrics' = EmptyMetrics
    /\ ev_results' = NoResults
    /\ ev_quality' = <<>>

\* ------------------------------------------------------ evaluator claims
Uniform(values) ==
    /\ values # <<>>
    /\ \A i, j \in 1..Len(values) : values[i] = values[j]

\* C7 (as stated): the Gini coefficient of a list all of whose elements are
\* equal, such as [1, 1, 1, 1], is 0.
C7_GiniUniformIsZero ==
    (ev_called = "gini" /\ Uniform(ev_values)) => RatIsZero(ev_gini)

\* C15: for every non-empty list of positive frequency counts the Gini
\* coefficient g returned satisfies 0 <= g <= 1.
C15_GiniInUnitInterval ==
    (/\ ev_called = "gini"
     /\ ev_values # <<>>
     /\ \A i \in 1..Len(ev_values) : ev_values[i] > 0) =>
        /\ ev_gini[2] > 0
        /\ 0 <= ev_gini[1]
        /\ ev_gini[1] <= ev_gini[2]

\* A metric of the recorded evaluation results, a missing one counted as 0.
Component(metric) == IF metric = <<>> THEN 0 ELSE metric[1]

\* 0.3*f1 + 0.25*intra_list_diversity + 0.2*combined_novelty
\* + 0.15*genre_coverage - 0.1*overall_bias_score, in units of 1e-4.
WeightedQuality ==
    30 * Component(ev_results.f1)
      + 25 * Component(ev_results.intra_list_diversity)
      + 20 * Component(ev_results.combined_novelty)
      + 15 * Component(ev_results.genre_coverage)
      - 10 * Component(ev_results.overall_bias_score)

\* C16: the overall quality score is the weighted sum of the five metrics
\* (a missing one counted as 0) clamped to [0, 1]; overall_score is always
\* in [0, 1].
C16_QualityIsClampedWeightedSum ==
    ev_called = "overall_quality" =>
        /\ ev_quality # <<>>
        /\ 0 <= ev_quality[1] /\ ev_quality[1] <= 10000
        /\ ev_quality[1] = IF WeightedQuality < 0 THEN 0
                           ELSE IF WeightedQuality > 10000 THEN 10000
                           ELSE WeightedQuality

\* A score strictly between 0 and 1 computed with a missing metric, and the
\* bias penalty lowering it.
C16_Witness ==
    /\ ev_called = "overall_quality"
    /\ ev_results.genre_coverage = <<>>
    /\ ev_results.overall_bias_score # <<>>
    /\ ev_results.overall_bias_score[1] > 0
    /\ ev_quality # <<>>
    /\ 0 < ev_quality[1] /\ ev_quality[1] < 10000

\* The rating a ground-truth list gives an item it lists once.
RatingIn(ground_truth, item_id) ==
    RatingOf(ground_truth[CHOOSE i \in 1..Len(ground_truth) :
                              ground_truth[i].item_id = item_id])

\* recommendations lists exactly the items of ground_truth, each once,
\* highest rating first.
IdealOrder(recommendations, ground_truth) ==
    /\ Len(recommendations) = Len(ground_truth)
    /\ \A i, j \in 1..Len(ground_truth) :
          i # j => ground_truth[i].item_id # ground_truth[j].item_id
    /\ {recommendations[i].item_id : i \in 1..Len(recommendations)}
          = {ground_truth[i].item_id : i \in 1..Len(ground_truth)}
    /\ \A i \in 1..(Len(recommendations) - 1) :
          RatingIn(ground_truth, recommendations[i].item_id)
              >= RatingIn(ground_truth, recommendations[i + 1].item_id)

C9_EmptyGroundTruthZeros ==
    (ev_called = "accuracy" /\ ev_gt = <<>>) =>
        /\ {"precision", "recall", "f1", "ndcg"} \subseteq ev_metrics.keys
        /\ RatIsZero(ev_metrics.precision)
        /\ RatIsZero(ev_metrics.recall)
        /\ RatIsZero(ev_metrics.f1)
        /\ RatIsZero(ev_metrics.ndcg)

\* The accuracy metrics of a non-empty recommendation list against an
\* empty ground truth.
C9_Witness ==
    /\ ev_called = "accuracy"
    /\ ev_gt = <<>>
    /\ ev_recs # <<>>
    /\ ev_metrics = ZeroMetrics

\* ======================================================================
\* Debiasing transforms (src/ml/debiasing.py)
\* ======================================================================
\* Scores of recommendation records are in thousandths, the strengths and
\* ratios given to the constructors in tenths, popularity is 0..100.  A
\* dict key that may be missing holds <<>> when missing and <<v>> when set.

\* Longest recommendation list handed to a transform.
MaxRecs == 3
\* Longest candidate pool handed to inject_diversity.
MaxPool == 2

ScoreVals == {1000, 2000}

\* A recommendation dict {'item_id': ..., 'score': ...}.
Rec(item_id, score) ==
    [item_id |-> item_id, score |-> score, popularity |-> <<>>,
     diversity_score |-> <<>>, combined_score |-> <<>>,
     original_score |-> <<>>, popularity_penalty |-> <<>>,
     needs_niche_replacement |-> <<>>, needs_bias_correction |-> <<>>]

Max2(a, b) == IF a >= b THEN a ELSE b
Abs(a) == IF a >= 0 THEN a ELSE -a

\* Python's int(a / b) for b > 0: truncation toward zero.
TruncDiv(a, b) == IF a >= 0 THEN a \div b ELSE -((-a) \div b)

\* The 0-based position a slice bound n denotes in a list of length len.
SliceBound(len, n) == IF n >= 0 THEN Min2(n, len) ELSE Max2(len + n, 0)

\* A faulty s[n:] that drops nothing.
PySliceFromWhole(s, n) == s

\* Python slice s[n:].
PySliceFrom(s, n) == SubSeq(s, SliceBound(Len(s), n) + 1, Len(s))

\* A faulty s[:n] that takes the last n elements, s[len(s) - n:] for n > 0.
PySliceToLast(s, n) ==
    SubSeq(s, Len(s) - SliceBound(Len(s), n) + 1, Len(s))

\* Python slice s[:n].
PySliceTo(s, n) == SubSeq(s, 1, SliceBound(Len(s), n))

\* list.sort(key=Key, reverse=True): stable.
SortRecsDesc(recs, Key(_)) ==
    LET sorted == SortedDesc([i \in 1..Len(recs) |->
                                 <<recs[i], Key(recs[i])>>])
    IN  [i \in 1..Len(recs) |-> sorted[i][1]]

\* list.sort(key=Key): stable.
SortRecsAsc(recs, Key(_)) ==
    LET sorted == SortedDesc([i \in 1..Len(recs) |->
                                 <<recs[i], 0 - Key(recs[i])>>])
    IN  [i \in 1..Len(recs) |-> sorted[i][1]]

\* [r for r in recs if Keep(r)]
SelectRecs(recs, Keep(_)) ==
    LET kept == SetToAscSeq({i \in 1..Len(recs) : Keep(recs[i])})
    IN  [k \in 1..Len(kept) |-> recs[kept[k]]]

VARIABLES
    diversity_strength,   \* DiversityInjector.diversity_strength, tenths
    user_profiles,        \* DiversityInjector.user_profiles
    debiasing_strength,   \* PopularityDebiaser.debiasing_strength, tenths
    popularity_stats,     \* PopularityDebiaser.popularity_stats: <<>> is {}
    min_niche_ratio,      \* FairnessConstraintEnforcer.min_niche_ratio
    artist_stats,         \* FairnessConstraintEnforcer.artist_stats
    bias_detector,        \* AdversarialDebiaser.bias_detector
    tr_called,            \* "none", or the transform in progress
    tr_user,              \* its user_id argument
    tr_input,             \* the caller's recommendation list before the call
    tr_pool,              \* its candidate_pool argument
    tr_meta,              \* its track_metadata argument
    tr_raised,            \* whether the body raised
    tr_returned,          \* the list returned
    tr_same_list,         \* whether the list returned is the caller's list
    tr_after              \* the caller's recommendation list after the call

objectVars == <<diversity_strength, user_profiles, debiasing_strength,
                popularity_stats, min_niche_ratio, artist_stats,
                bias_detector>>
callVars == <<tr_called, tr_user, tr_input, tr_pool, tr_meta, tr_raised,
              tr_returned, tr_same_list, tr_after>>
transformVars == <<objectVars, callVars>>

\* Recommendation lists: items 1..l in this order, any scores.
RecLists ==
    UNION {{[i \in 1..l |-> Rec(i, <<scores[i]>>)] : scores \in [1..l -> ScoreVals]} :
              l \in 0..MaxRecs}

\* --------------------------------------------------- track_metadata
\* The catalogue handed to the injector as track_metadata: genres and
\* popularity by track id; a track id divisible by 4 has no entry.
TrackGenres(item_id) ==
    IF item_id % 4 = 0 THEN {}
    ELSE IF item_id % 3 = 1 THEN {"rock"}
    ELSE IF item_id % 3 = 2 THEN {"jazz"}
    ELSE {"rock", "jazz"}

TrackPopularity(item_id) ==
    IF item_id % 4 = 1 THEN 80
    ELSE IF item_id % 4 = 2 THEN 20
    ELSE IF item_id % 4 = 3 THEN 50
    ELSE 0

\* ------------------------------------------------------ DiversityInjector
\* _build_user_profile: the Counter of genres and np.mean of popularities.
BuildUserProfile(interactions) ==
    LET genres == UNION {TrackGenres(interactions[i]) :
                            i \in 1..Len(interactions)}
    IN  [preferred_genres |->
             [g \in genres |->
                 Cardinality({i \in 1..Len(interactions) :
                                 g \in TrackGenres(interactions[i])})],
         avg_popularity |->
             IF interactions = <<>> THEN 0
             ELSE SumSeq([i \in 1..Len(interactions) |->
                             TrackPopularity(interactions[i])])
                      \div Len(interactions)]

\* _calculate_diversity_score in thousandths, for tracks without audio
\* features: 0.4 * (1 - genre overlap) + 0.3 * popularity difference / 100.
DiversityScore(candidate, user_profile) ==
    LET track_genres == TrackGenres(candidate.item_id)
        user_genres == DOMAIN user_profile.preferred_genres
        genre_part ==
            IF track_genres # {} /\ user_genres # {}
            THEN (400 * (Cardinality(track_genres \cup user_genres)
                           - Cardinality(track_genres \cap user_genres)))
                     \div Cardinality(track_genres \cup user_genres)
            ELSE 0
        popularity_diff ==
            Abs(TrackPopularity(candidate.item_id)
                    - user_profile.avg_popularity)
    IN  genre_part + 3 * popularity_diff

\* rec['score'] + rec['diversity_score'] * diversity_strength, or rec['score'].
CombinedScore(rec) ==
    IF rec.diversity_score # <<>>
    THEN rec.score[1] + (rec.diversity_score[1] * diversity_strength) \div 10
    ELSE rec.score[1]

WithCombinedScore(rec) == [rec EXCEPT !.combined_score = <<CombinedScore(rec)>>]

\* The body of inject_diversity for a known user: what it returns (value),
\* whether it raised, and what it leaves in the caller's list (caller).
InjectDiversityBody(user_id, recommendations, candidate_pool) ==
    LET user_profile == user_profiles[user_id]
        recommended_ids == {recommendations[i].item_id :
                               i \in 1..Len(recommendations)}
        fresh == SelectRecs(candidate_pool,
                            LAMBDA c : c.item_id \notin recommended_ids)
        with_diversity ==
            [i \in 1..Len(fresh) |->
                [fresh[i] EXCEPT !.diversity_score =
                                    <<DiversityScore(fresh[i], user_profile)>>]]
        diversity_candidates ==
            SortRecsDesc(with_diversity, LAMBDA c : c.diversity_score[1])
        n_replacements ==
            TruncDiv(Len(recommendations) * diversity_strength, 10)
    IN  IF \E i \in 1..Len(recommendations) : recommendations[i].score = <<>>
        THEN \* the key function of recommendations.sort raises
             [raised |-> TRUE, value |-> <<>>, caller |-> recommendations]
        ELSE
        LET sorted == SortRecsAsc(recommendations, LAMBDA r : r.score[1])
            kept == PySliceFrom(sorted, n_replacements)
            first_kept == Len(sorted) - Len(kept) + 1
            diverse_recommendations ==
                kept \o PySliceTo(diversity_candidates, n_replacements)
            caller == [j \in 1..Len(sorted) |->
                          IF j >= first_kept THEN WithCombinedScore(sorted[j])
                          ELSE sorted[j]]
        IN  IF \E i \in 1..Len(diverse_recommendations) :
                   diverse_recommendations[i].score = <<>>
            THEN [raised |-> TRUE, value |-> <<>>, caller |-> caller]
            ELSE [raised |-> FALSE,
                  value |-> SortRecsDesc(
                      [i \in 1..Len(diverse_recommendations) |->
                          WithCombinedScore(diverse_recommendations[i])],
                      LAMBDA r : r.combined_score[1]),
                  caller |-> caller]

\* inject_diversity: [returned, same_list, raised, after].
InjectDiversityCall(user_id, recommendations, candidate_pool) ==
    IF user_id \notin DOMAIN user_profiles
    THEN [returned |-> recommendations, same_list |-> TRUE,
          raised |-> FALSE, after |-> recommendations]
    ELSE LET r == InjectDiversityBody(user_id, recommendations,
                                      candidate_pool)
         IN  IF r.raised
             THEN [returned |-> r.caller, same_list |-> TRUE,
                   raised |-> TRUE, after |-> r.caller]
             ELSE [returned |-> r.value, same_list |-> FALSE,
                   raised |-> FALSE, after |-> r.caller]

\* DiversityInjector.fit: the profile of every user in user_interactions is
\* rebuilt; user_interactions maps user ids to lists of track ids.
FitInjector(user_interactions) ==
    /\ tr_called = "none"
    /\ user_profiles' =
           [u \in (DOMAIN user_profiles) \cup (DOMAIN user_interactions) |->
               IF u \in DOMAIN user_interactions
               THEN BuildUserProfile(user_interactions[u])
               ELSE user_profiles[u]]
    /\ UNCHANGED <<diversity_strength, debiasing_strength, popularity_stats,
                   min_niche_ratio, artist_stats, bias_detector, callVars>>

\* The interaction histories fit is given: their mean popularity is whole.
InteractionLists == {<<1>>, <<2>>, <<1, 2>>}

FitInjectorAny ==
    \E S \in SUBSET Users :
        \E user_interactions \in [S -> InteractionLists] :
            FitInjector(user_interactions)

\* The tracks a candidate pool draws from: the items and one more track.
PoolItems == 1..(NumItems + 1)

\* Candidate pools: distinct tracks in ascending id order, each candidate
\* with a score of 1.0 or without the 'score' key.
CandidatePools ==
    UNION {{[i \in 1..Len(SetToAscSeq(S)) |->
                Rec(SetToAscSeq(S)[i], scores[SetToAscSeq(S)[i]])] :
               scores \in [S -> {<<>>, <<1000>>}]} :
           S \in {T \in SUBSET PoolItems : Cardinality(T) <= MaxPool}}

InjectDiversity(user_id, recommendations, candidate_pool) ==
    \E r \in {InjectDiversityCall(user_id, recommendations, candidate_pool)} :
        /\ tr_called' = "inject_diversity"
        /\ tr_user' = user_id
        /\ tr_input' = recommendations
        /\ tr_pool' = candidate_pool
        /\ tr_meta' = <<>>
        /\ tr_raised' = r.raised
        /\ tr_returned' = r.returned
        /\ tr_same_list' = r.same_list
        /\ tr_after' = r.after
        /\ UNCHANGED objectVars

InjectDiversityAny ==
    /\ tr_called = "none"
    /\ \E user_id \in Users :
       \E recommendations \in RecLists :
       \E candidate_pool \in CandidatePools :
           InjectDiversity(user_id, recommendations, candidate_pool)

\* The call returns; nothing of it stays with the transform.
TransformReturn ==
    /\ tr_called # "none"
    /\ tr_called' = "none"
    /\ tr_user' = ""
    /\ tr_input' = <<>>
    /\ tr_pool' = <<>>
    /\ tr_meta' = <<>>
    /\ tr_raised' = FALSE
    /\ tr_returned' = <<>>
    /\ tr_same_list' = FALSE
    /\ tr_after' = <<>>
    /\ UNCHANGED objectVars

\* ----------------------------------------------------- PopularityDebiaser
\* The popularity columns fit is given; np.mean of each is whole.
PopularityColumns == {<<0, 100>>, <<0, 0, 0, 100>>, <<50, 100>>, <<50>>}

SeqMin(s) == CHOOSE x \in SeqToSet(s) : \A y \in SeqToSet(s) : x <= y
SeqMax(s) == CHOOSE x \in SeqToSet(s) : \A y \in SeqToSet(s) : x >= y

\* PopularityDebiaser.fit
FitDebiaser(column) ==
    /\ tr_called = "none"
    /\ popularity_stats' = <<[mean |-> SumSeq(column) \div Len(column),
                              min |-> SeqMin(column),
                              max |-> SeqMax(column)]>>
    /\ UNCHANGED <<diversity_strength, user_profiles, debiasing_strength,
                   min_niche_ratio, artist_stats, bias_detector, callVars>>

FitDebiaserAny == \E column \in PopularityColumns : FitDebiaser(column)

\* 1 / (1 + exp(-10 * (x - 0.5))) in ten-thousandths, for x = q / 4.
Sigmoid(q) ==
    IF q <= -2 THEN 0
    ELSE IF q >= 6 THEN 10000
    ELSE <<6, 67, 759, 5000, 9241, 9933, 9994>>[q + 2]

\* Four times the normalized popularity; 2 stands for 0.5.  On the model's
\* columns and popularities the division is exact.
NormalizedQuarters(popularity) ==
    LET stats == popularity_stats[1]
        pop_range == stats.max - stats.min
    IN  IF pop_range > 0
        THEN (4 * (popularity - stats.min)) \div pop_range
        ELSE 2

\* _calculate_popularity_penalty, in ten-thousandths.
PopularityPenalty(popularity) == Sigmoid(NormalizedQuarters(popularity))

\* track_info.get('popularity', self.popularity_stats['mean'])
PopularityOf(item_id, track_metadata) ==
    IF track_metadata[item_id] # <<>> THEN track_metadata[item_id][1]
    ELSE popularity_stats[1].mean

\* original_score * (1 - debiasing_strength * popularity_penalty), in units
\* of 10^-5 thousandths.
DebiasedScore(original_score, popularity_penalty) ==
    original_score * (100000 - debiasing_strength * popularity_penalty)

\* A debias_scores that reads rec['score'] for original_score after it
\* has overwritten it with the debiased score.
DebiasScoresBodyLateOriginal(recommendations, track_metadata) ==
    IF recommendations # <<>>
         /\ (popularity_stats = <<>>
               \/ \E i \in 1..Len(recommendations) :
                     recommendations[i].score = <<>>)
    THEN [raised |-> TRUE, value |-> <<>>]
    ELSE LET debiased_recommendations ==
                 [i \in 1..Len(recommendations) |->
                     LET rec == recommendations[i]
                         popularity_penalty ==
                             PopularityPenalty(
                                 PopularityOf(rec.item_id, track_metadata))
                         debiased_score ==
                             DebiasedScore(rec.score[1], popularity_penalty)
                     IN  [rec EXCEPT
                              !.score = <<debiased_score>>,
                              !.original_score = <<debiased_score>>,
                              !.popularity_penalty = <<popularity_penalty>>]]
         IN  [raised |-> FALSE,
              value |-> SortRecsDesc(debiased_recommendations,
                                     LAMBDA r : r.score[1])]

\* The body of debias_scores; the caller's list is only read.
DebiasScoresBody(recommendations, track_metadata) ==
    IF recommendations # <<>>
         /\ (popularity_stats = <<>>
               \/ \E i \in 1..Len(recommendations) :
                     recommendations[i].score = <<>>)
    THEN [raised |-> TRUE, value |-> <<>>]
    ELSE LET debiased_recommendations ==
                 [i \in 1..Len(recommendations) |->
                     LET rec == recommendations[i]
                         popularity_penalty ==
                             PopularityPenalty(
                                 PopularityOf(rec.item_id, track_metadata))
                     IN  [rec EXCEPT
                              !.score = <<DebiasedScore(rec.score[1],
                                                        popularity_penalty)>>,
                              !.original_score = rec.score,
                              !.popularity_penalty = <<popularity_penalty>>]]
         IN  [raised |-> FALSE,
              value |-> SortRecsDesc(debiased_recommendations,
                                     LAMBDA r : r.score[1])]

DebiasScoresCall(recommendations, track_metadata) ==
    LET r == DebiasScoresBody(recommendations, track_metadata)
    IN  IF r.raised
        THEN [returned |-> recommendations, same_list |-> TRUE,
              raised |-> TRUE, after |-> recommendations]
        ELSE [returned |-> r.value, same_list |-> FALSE,
              raised |-> FALSE, after |-> recommendations]

\* Scores debias_scores is given: 1.0 or -1.0.
SignedScoreVals == {-1000, 1000}
\* The popularity track_metadata holds for a track: none, 0, 50 or 100.
PopularityEntries == {<<>>, <<0>>, <<50>>, <<100>>}

DebiasScores(recommendations, track_metadata) ==
    \E r \in {DebiasScoresCall(recommendations, track_metadata)} :
        /\ tr_called' = "debias_scores"
        /\ tr_user' = ""
        /\ tr_input' = recommendations
        /\ tr_pool' = <<>>
        /\ tr_meta' = track_metadata
        /\ tr_raised' = r.raised
        /\ tr_returned' = r.returned
        /\ tr_same_list' = r.same_list
        /\ tr_after' = r.after
        /\ UNCHANGED objectVars

\* The item ids of a list of l records: all different, or the last record
\* repeating the item of the first.
ItemIdLists(l) ==
    {[i \in 1..l |-> i], [i \in 1..l |-> IF i = l THEN 1 ELSE i]}

DebiasScoresAny ==
    /\ tr_called = "none"
    /\ \E l \in 0..MaxRecs :
       \E ids \in ItemIdLists(l) :
       \E scores \in [1..l -> SignedScoreVals] :
       \E track_metadata \in [1..l -> PopularityEntries] :
           DebiasScores([i \in 1..l |-> Rec(ids[i], <<scores[i]>>)],
                        track_metadata)

\* --------------------------------------------- FairnessConstraintEnforcer
\* artist_metadata: popularity and genres by artist id.
Artists == {"n1", "n2", "mid", "star"}

ArtistPopularity(artist_id) ==
    IF artist_id = "n1" THEN 10
    ELSE IF artist_id = "n2" THEN 20
    ELSE IF artist_id = "mid" THEN 45
    ELSE 90

ArtistGenres(artist_id) ==
    IF artist_id = "n1" THEN {"rock"}
    ELSE IF artist_id = "n2" THEN {"jazz"}
    ELSE IF artist_id = "mid" THEN {"pop"}
    ELSE {"pop", "rock"}

\* The default of the constructor's min_diverse_genres.
min_diverse_genres == 3

\* FairnessConstraintEnforcer.fit on tracks by the given artists.
FitEnforcer(artists) ==
    /\ tr_called = "none"
    /\ artist_stats' =
           <<[niche |-> {a \in artists : ArtistPopularity(a) < 30},
              emerging |-> {a \in artists : /\ 30 <= ArtistPopularity(a)
                                            /\ ArtistPopularity(a) < 60},
              established |-> {a \in artists : /\ 60 <= ArtistPopularity(a)
                                               /\ ArtistPopularity(a) < 80},
              mainstream |-> {a \in artists : ArtistPopularity(a) >= 80}]>>
    /\ UNCHANGED <<diversity_strength, user_profiles, debiasing_strength,
                   popularity_stats, min_niche_ratio, bias_detector,
                   callVars>>

FitEnforcerAny == \E artists \in {Artists, {"n1", "star"}} : FitEnforcer(artists)

\* self.artist_stats.get(category, [])
ArtistCategory(category) ==
    IF artist_stats = <<>> THEN {} ELSE artist_stats[1][category]

RECURSIVE Flatten(_)
Flatten(s) == IF s = <<>> THEN <<>> ELSE Head(s) \o Flatten(Tail(s))

\* The artist ids of the recommendations that have one, in list order.
CurrentArtists(recommendations, track_metadata) ==
    Flatten([i \in 1..Len(recommendations) |->
                track_metadata[recommendations[i].item_id]])

\* Number of distinct niche artists among current_artists.
NicheCount(current_artists) ==
    Cardinality(SeqToSet(current_artists) \cap ArtistCategory("niche"))

\* _check_fairness_violations: niche_ratio, as <<numerator, denominator>>.
NicheRatio(current_artists) ==
    IF current_artists = <<>> THEN <<0, 1>>
    ELSE <<NicheCount(current_artists), Len(current_artists)>>

\* _check_fairness_violations: niche_ratio < min_niche_ratio.
InsufficientNiche(current_artists) ==
    10 * NicheRatio(current_artists)[1]
        < min_niche_ratio * NicheRatio(current_artists)[2]

\* _check_fairness_violations: len(current_genres) < min_diverse_genres.
InsufficientGenreDiversity(current_artists) ==
    Cardinality(UNION {ArtistGenres(a) : a \in SeqToSet(current_artists)})
        < min_diverse_genres

\* int(len(recommendations) * deficit), deficit = min_niche_ratio - niche_ratio.
ItemsToReplace(recommendations, current_artists) ==
    IF current_artists = <<>>
    THEN TruncDiv(Len(recommendations) * min_niche_ratio, 10)
    ELSE TruncDiv(Len(recommendations)
                      * (min_niche_ratio * Len(current_artists)
                           - 10 * NicheCount(current_artists)),
                  10 * Len(current_artists))

\* _apply_fairness_corrections without the mainstream test of its loop:
\* the first items_to_replace entries of any group get the flag.
ApplyFairnessCorrectionsAnyGroup(recommendations, track_metadata, current_artists) ==
    LET marked ==
            IF InsufficientNiche(current_artists)
            THEN 1..Min2(Len(recommendations),
                         Max2(0, ItemsToReplace(recommendations,
                                                current_artists)))
            ELSE {}
    IN  [i \in 1..Len(recommendations) |->
            IF i \in marked
            THEN [recommendations[i] EXCEPT
                      !.needs_niche_replacement = <<TRUE>>]
            ELSE recommendations[i]]

\* _apply_fairness_corrections: the first items_to_replace mainstream
\* entries get needs_niche_replacement; the dicts are those of the caller.
ApplyFairnessCorrections(recommendations, track_metadata, current_artists) ==
    LET mainstream_indices ==
            SetToAscSeq({i \in 1..Len(recommendations) :
                /\ track_metadata[recommendations[i].item_id] # <<>>
                /\ track_metadata[recommendations[i].item_id][1]
                       \in ArtistCategory("mainstream")})
        marked ==
            IF InsufficientNiche(current_artists)
            THEN SeqToSet(PySliceTo(mainstream_indices,
                     ItemsToReplace(recommendations, current_artists)))
            ELSE {}
    IN  [i \in 1..Len(recommendations) |->
            IF i \in marked
            THEN [recommendations[i] EXCEPT
                      !.needs_niche_replacement = <<TRUE>>]
            ELSE recommendations[i]]

\* enforce_fairness: [returned, same_list, raised, after].
EnforceFairnessCall(recommendations, track_metadata) ==
    LET current_artists == CurrentArtists(recommendations, track_metadata)
    IN  IF InsufficientNiche(current_artists)
             \/ InsufficientGenreDiversity(current_artists)
        THEN LET corrected == ApplyFairnessCorrections(
                                  recommendations, track_metadata,
                                  current_artists)
             IN  [returned |-> corrected, same_list |-> FALSE,
                  raised |-> FALSE, after |-> corrected]
        ELSE [returned |-> recommendations, same_list |-> TRUE,
              raised |-> FALSE, after |-> recommendations]

\* get_fairness_metrics: its 'niche_artist_ratio' as <<numerator,
\* denominator>>, with 'unique_artists' and 'total_recommendations'.
GetFairnessMetrics(recommendations, track_metadata) ==
    LET artists == CurrentArtists(recommendations, track_metadata)
        niche_artists ==
            Cardinality({i \in 1..Len(artists) :
                            artists[i] \in ArtistCategory("niche")})
    IN  [unique_artists |-> Cardinality(SeqToSet(artists)),
         total_recommendations |-> Len(recommendations),
         niche_artist_ratio |->
             IF artists = <<>> THEN <<0, 1>>
             ELSE <<niche_artists, Len(artists)>>]

\* track_metadata[item_id].get('artist_id'): none, or one of the artists.
ArtistEntries == {<<>>} \cup {<<a>> : a \in Artists}

EnforceFairness(recommendations, track_metadata) ==
    \E r \in {EnforceFairnessCall(recommendations, track_metadata)} :
        /\ tr_called' = "enforce_fairness"
        /\ tr_user' = ""
        /\ tr_input' = recommendations
        /\ tr_pool' = <<>>
        /\ tr_meta' = track_metadata
        /\ tr_raised' = r.raised
        /\ tr_returned' = r.returned
        /\ tr_same_list' = r.same_list
        /\ tr_after' = r.after
        /\ UNCHANGED objectVars

EnforceFairnessAny ==
    /\ tr_called = "none"
    /\ \E recommendations \in RecLists :
       \E track_metadata \in [1..Len(recommendations) -> ArtistEntries] :
           EnforceFairness(recommendations, track_metadata)

\* ----------------------------------------------------- AdversarialDebiaser
\* rec.get('popularity', 0)
PopularityKey(rec) == IF rec.popularity = <<>> THEN 0 ELSE rec.popularity[1]

\* _detect_bias_in_session on records without an 'artist_id' key: mean
\* popularity above 75, or unique artists / length below 0.7.
DetectBiasInSession(recommendations) ==
    LET popularities == [i \in 1..Len(recommendations) |->
                            PopularityKey(recommendations[i])]
        unique_artists == IF recommendations = <<>> THEN 0 ELSE 1
    IN  \/ /\ recommendations # <<>>
           /\ SumSeq(popularities) > 75 * Len(recommendations)
        \/ recommendations = <<>>
        \/ 10 * unique_artists < 7 * Len(recommendations)

\* The sessions a recommendations_history is made of.
Sessions ==
    {<<>>,
     <<[Rec(1, <<1000>>) EXCEPT !.popularity = <<20>>]>>,
     <<[Rec(1, <<1000>>) EXCEPT !.popularity = <<80>>]>>}

\* train_bias_detector: the classifier is assigned before it is fitted;
\* fitting raises on an empty history, and learns one class when every
\* session has the same label.
TrainBiasDetector(recommendations_history) ==
    /\ tr_called = "none"
    /\ bias_detector' =
           IF recommendations_history = <<>> THEN "unfitted"
           ELSE IF \A i, j \in 1..Len(recommendations_history) :
                       DetectBiasInSession(recommendations_history[i])
                           = DetectBiasInSession(recommendations_history[j])
                THEN "one_class"
                ELSE "two_class"
    /\ UNCHANGED <<diversity_strength, user_profiles, debiasing_strength,
                   popularity_stats, min_niche_ratio, artist_stats, callVars>>

TrainBiasDetectorAny ==
    \E l \in 0..2 : \E recommendations_history \in [1..l -> Sessions] :
        TrainBiasDetector(recommendations_history)

\* _apply_bias_corrections, on the caller's list and dicts: [raised, caller].
ApplyBiasCorrections(recommendations) ==
    LET by_popularity == SortRecsDesc(recommendations, PopularityKey)
        n_replace == (Len(recommendations) * 3) \div 10
        bad == {i \in 1..n_replace : by_popularity[i].score = <<>>}
        first_bad == IF bad = {} THEN n_replace + 1
                     ELSE CHOOSE i \in bad : \A j \in bad : i <= j
        marked ==
            [i \in 1..Len(by_popularity) |->
                IF i < first_bad
                THEN [by_popularity[i] EXCEPT
                          !.needs_bias_correction = <<TRUE>>,
                          !.score = <<(by_popularity[i].score[1] * 7) \div 10>>]
                ELSE IF i = first_bad /\ bad # {}
                THEN [by_popularity[i] EXCEPT
                          !.needs_bias_correction = <<TRUE>>]
                ELSE by_popularity[i]]
    IN  IF \E i \in 1..Len(marked) : marked[i].score = <<>>
        THEN [raised |-> TRUE, caller |-> marked]
        ELSE [raised |-> FALSE,
              caller |-> SortRecsDesc(marked, LAMBDA r : r.score[1])]

\* apply_adversarial_debiasing: [returned, same_list, raised, after];
\* bias_high tells whether predict_proba gives more than 0.7.
ApplyAdversarialCall(recommendations, bias_high) ==
    IF bias_detector = "None"
    THEN [returned |-> recommendations, same_list |-> TRUE,
          raised |-> FALSE, after |-> recommendations]
    ELSE IF bias_detector # "two_class"
    THEN [returned |-> recommendations, same_list |-> TRUE,
          raised |-> TRUE, after |-> recommendations]
    ELSE IF bias_high
    THEN LET r == ApplyBiasCorrections(recommendations)
         IN  [returned |-> r.caller, same_list |-> TRUE,
              raised |-> r.raised, after |-> r.caller]
    ELSE [returned |-> recommendations, same_list |-> TRUE,
          raised |-> FALSE, after |-> recommendations]

\* Recommendation lists whose records may carry a 'popularity' key.
PopularityRecLists ==
    UNION {{[i \in 1..l |->
                [Rec(i, <<scores[i]>>) EXCEPT !.popularity = pops[i]]] :
               scores \in [1..l -> ScoreVals],
               pops \in [1..l -> {<<>>, <<20>>, <<80>>}]} :
           l \in 0..MaxRecs}

ApplyAdversarialDebiasing(recommendations, bias_high) ==
    \E r \in {ApplyAdversarialCall(recommendations, bias_high)} :
        /\ tr_called' = "apply_adversarial_debiasing"
        /\ tr_user' = ""
        /\ tr_input' = recommendations
        /\ tr_pool' = <<>>
        /\ tr_meta' = <<bias_high>>
        /\ tr_raised' = r.raised
        /\ tr_returned' = r.returned
        /\ tr_same_list' = r.same_list
        /\ tr_after' = r.after
        /\ UNCHANGED objectVars

ApplyAdversarialDebiasingAny ==
    /\ tr_called = "none"
    /\ \E recommendations \in PopularityRecLists :
       \E bias_high \in BOOLEAN :
           ApplyAdversarialDebiasing(recommendations, bias_high)

\* ---------------------------------------------------- construction
\* The four transforms as constructed, with the given constructor
\* arguments (tenths); the defaults are 0.3, 0.5 and 0.3.
TransformsInit(ds, ps, nr) ==
    /\ diversity_strength = ds
    /\ user_profiles = <<>>
    /\ debiasing_strength = ps
    /\ popularity_stats = <<>>
    /\ min_niche_ratio = nr
    /\ artist_stats = <<>>
    /\ bias_detector = "None"
    /\ tr_called = "none"
    /\ tr_user = ""
    /\ tr_input = <<>>
    /\ tr_pool = <<>>
    /\ tr_meta = <<>>
    /\ tr_raised = FALSE
    /\ tr_returned = <<>>
    /\ tr_same_list = FALSE
    /\ tr_after = <<>>

DefaultDiversityStrength == 3
DefaultDebiasingStrength == 5
DefaultMinNicheRatio == 3

TransformsIdle ==
    TransformsInit(DefaultDiversityStrength, DefaultDebiasingStrength,
                   DefaultMinNicheRatio)

\* Constructor arguments explored: -1.0, 0.5, 1.0 and 2.0.
DiversityStrengths == {-10, 5, 10, 20}
\* 0, 0.5 and 1.0.
DebiasingStrengths == {0, 5, 10}
\* 0.3 and 0.5.
MinNicheRatios == {3, 5}

InjectorInit ==
    \E ds \in DiversityStrengths :
        TransformsInit(ds, DefaultDebiasingStrength, DefaultMinNicheRatio)
DebiaserInit ==
    \E ps \in DebiasingStrengths :
        TransformsInit(DefaultDiversityStrength, ps, DefaultMinNicheRatio)
EnforcerInit ==
    \E nr \in MinNicheRatios :
        TransformsInit(DefaultDiversityStrength, DefaultDebiasingStrength, nr)

\* ----------------------------------------------------- transform claims
\* inject_diversity is in progress for a user the injector has a profile of.
KnownUserCall ==
    tr_called = "inject_diversity" /\ tr_user \in DOMAIN user_profiles

\* C5 (as stated): whatever diversity_strength the injector was constructed
\* with, the list inject_diversity returns for a known user is never longer
\* than the recommendation list passed in.
C5_NeverLongerAnyStrength ==
    KnownUserCall => Len(tr_returned) <= Len(tr_input)

\* C5 (amended): for a diversity_strength between 0 and 1 the list
\* inject_diversity returns for a known user is never longer than the
\* recommendation list passed in.
C5_NeverLongerUnitStrength ==
    (KnownUserCall /\ 0 <= diversity_strength /\ diversity_strength <= 10)
        => Len(tr_returned) <= Len(tr_input)

\* A call with a strength between 0 and 1 that replaced a recommendation
\* by a pool candidate.
C5_Witness ==
    /\ KnownUserCall
    /\ 0 <= diversity_strength /\ diversity_strength <= 10
    /\ ~tr_raised
    /\ Len(tr_pool) = MaxPool
    /\ \E i \in 1..Len(tr_returned) : tr_returned[i].diversity_score # <<>>
    /\ Len(tr_returned) = Len(tr_input)

\* C6 (as stated): for a fitted PopularityDebiaser, of two records of one
\* debias_scores call with the same original score, the one whose track is
\* at most as popular has at least the debiased score of the other.
C6_MonotoneInPopularity ==
    (tr_called = "debias_scores" /\ popularity_stats # <<>> /\ ~tr_raised) =>
        \A i, j \in 1..Len(tr_returned) :
            (/\ tr_returned[i].original_score = tr_returned[j].original_score
             /\ PopularityOf(tr_returned[i].item_id, tr_meta)
                    <= PopularityOf(tr_returned[j].item_id, tr_meta))
                => tr_returned[i].score[1] >= tr_returned[j].score[1]

\* C10 (as stated): after a call of a debiasing transform the caller's
\* recommendation list has the same order and the same records with the
\* same fields and field values as before the call.
C10_TransformsArePure ==
    tr_called # "none" => tr_after = tr_input

\* C11: a transform that fails internally returns its input recommendation
\* list unmodified: the same records in the same order with the same field
\* values as before the call.
C11_FailureReturnsInputUnmodified ==
    (tr_called # "none" /\ tr_raised) =>
        (tr_returned = tr_input /\ tr_after = tr_input)

\* The one-to-one correspondences between the positions of the returned
\* list and those of the input list.
Correspondences ==
    {p \in [1..Len(tr_returned) -> 1..Len(tr_input)] :
        /\ \A i, j \in 1..Len(tr_returned) : p[i] = p[j] => i = j
        /\ \A k \in 1..Len(tr_input) :
               \E i \in 1..Len(tr_returned) : p[i] = k}

\* C19: on a fitted PopularityDebiaser a debias_scores call that does not
\* fail returns one record for each input record, with that record's item id
\* (so the same ids with the same multiplicities) and with original_score
\* equal to that record's input score, ordered by non-increasing debiased
\* score.
C19_SameItemsSortedByDebiasedScore ==
    (tr_called = "debias_scores" /\ popularity_stats # <<>> /\ ~tr_raised) =>
        /\ Len(tr_returned) = Len(tr_input)
        /\ \E p \in Correspondences :
               \A k \in 1..Len(tr_returned) :
                   /\ tr_returned[k].item_id = tr_input[p[k]].item_id
                   /\ tr_returned[k].original_score = tr_input[p[k]].score
        /\ \A i, j \in 1..Len(tr_returned) :
               i < j => tr_returned[i].score[1] >= tr_returned[j].score[1]

\* A fitted call on a list that holds one item twice with different scores,
\* returned in another order than it was passed in.
C19_Witness ==
    /\ tr_called = "debias_scores" /\ popularity_stats # <<>> /\ ~tr_raised
    /\ \E i, j \in 1..Len(tr_input) :
           /\ i < j
           /\ tr_input[i].item_id = tr_input[j].item_id
           /\ tr_input[i].score # tr_input[j].score
    /\ \E k \in 1..Len(tr_returned) :
           tr_returned[k].item_id # tr_input[k].item_id

\* n = int(len(recommendations) * diversity_strength) of the recorded call.
ReplacementCount == TruncDiv(Len(tr_input) * diversity_strength, 10)

\* Positions of the input recommendations that are in the returned list.
Retained ==
    {i \in 1..Len(tr_input) : tr_input[i].item_id \in
        {tr_returned[k].item_id : k \in 1..Len(tr_returned)}}

\* Positions of the pool candidates whose item_id is not recommended.
FreshCandidates ==
    {j \in 1..Len(tr_pool) : tr_pool[j].item_id \notin
        {tr_input[i].item_id : i \in 1..Len(tr_input)}}

\* Positions of the pool candidates that are in the returned list.
Chosen ==
    {j \in FreshCandidates : tr_pool[j].item_id \in
        {tr_returned[k].item_id : k \in 1..Len(tr_returned)}}

\* C14: for a known user and 0 <= diversity_strength <= 1, a call of
\* inject_diversity that does not fail returns the len - n highest-scoring
\* input recommendations (no retained one scores lower than a removed one)
\* plus min(n, number of fresh candidates) pool candidates, which have the
\* highest diversity scores among the pool items not already recommended.
C14_SwapsLowestForMostDiverse ==
    (KnownUserCall /\ ~tr_raised
        /\ 0 <= diversity_strength /\ diversity_strength <= 10) =>
        /\ Cardinality(Retained) = Len(tr_input) - ReplacementCount
        /\ \A i \in Retained : \A j \in (1..Len(tr_input)) \ Retained :
               tr_input[i].score[1] >= tr_input[j].score[1]
        /\ Cardinality(Chosen)
               = Min2(ReplacementCount, Cardinality(FreshCandidates))
        /\ Len(tr_returned) = Cardinality(Retained) + Cardinality(Chosen)
        /\ \A k \in 1..Len(tr_returned) :
               \/ \E i \in Retained :
                      tr_returned[k].item_id = tr_input[i].item_id
               \/ \E j \in Chosen :
                      tr_returned[k].item_id = tr_pool[j].item_id
        /\ \A j \in Chosen : \A k \in FreshCandidates \ Chosen :
               DiversityScore(tr_pool[j], user_profiles[tr_user])
                   >= DiversityScore(tr_pool[k], user_profiles[tr_user])

\* A call that removed a recommendation scoring lower than a retained one
\* and took the more diverse of two fresh candidates.
C14_Witness ==
    /\ KnownUserCall /\ ~tr_raised
    /\ 0 <= diversity_strength /\ diversity_strength <= 10
    /\ \E i \in Retained : \E j \in (1..Len(tr_input)) \ Retained :
           tr_input[i].score[1] > tr_input[j].score[1]
    /\ \E j \in Chosen : \E k \in FreshCandidates \ Chosen :
           DiversityScore(tr_pool[j], user_profiles[tr_user])
               > DiversityScore(tr_pool[k], user_profiles[tr_user])

\* C20: the niche ratio enforce_fairness compares with min_niche_ratio is the
\* value get_fairness_metrics reports as niche_artist_ratio for the same list
\* and metadata (the fraction of entries with an artist whose artist is
\* niche).
C20_CheckedRatioIsReportedRatio ==
    tr_called = "enforce_fairness" =>
        LET checked == NicheRatio(CurrentArtists(tr_input, tr_meta))
            reported == GetFairnessMetrics(tr_input, tr_meta).niche_artist_ratio
        IN  checked[1] * reported[2] = reported[1] * checked[2]

\* The entries of the returned list whose needs_niche_replacement differs
\* from the input's.
FlaggedEntries ==
    {i \in 1..Min2(Len(tr_returned), Len(tr_input)) :
        tr_returned[i].needs_niche_replacement
            # tr_input[i].needs_niche_replacement}

MaxTime == 3

\* The default of the constructor's ttl_seconds.
DefaultTtlSeconds == 3600

VARIABLES
    ttl_seconds,       \* CacheManager.ttl_seconds
    session_state,     \* <<>> without 'cache', else <<dict key -> entry>>
    now,               \* time.time()
    cm_called,         \* "none" or the method that ran last
    cm_key,            \* its argument: <<key>>; the pattern of clear_cache
    cm_result,         \* what get_cached_data returned, <<>> for None
    cm_before,         \* session_state when the method was called
    last_store,        \* history: key -> the entry of its latest cache_data
    cleared            \* history: keys whose latest entry clear_cache removed

cacheVars == <<ttl_seconds, session_state, now, cm_called, cm_key,
               cm_result, cm_before, last_store, cleared>>

CacheKeys == {<<"a">>, <<"a", "b">>}
CachedValues == {"x", "y"}
Patterns == {<<>>, <<<<>>>>, <<<<"a">>>>, <<<<"b">>>>}
TtlValues == {1, 2}

\* pattern in key
\* pattern in key, with startswith in place of in.
IsPrefix(pattern, key) == Len(pattern) <= Len(key) /\ SubSeq(key, 1, Len(pattern)) = pattern

\* pattern in key
IsSubstring(pattern, key) ==
    \E i \in 0..(Len(key) - Len(pattern)) :
        SubSeq(key, i + 1, i + Len(pattern)) = pattern

\* st.session_state.get('cache', {})
SessionCache ==
    IF session_state = <<>> THEN <<>> ELSE session_state[1]

\* is_cache_valid with <= in place of <.
IsCacheValidInclusive(timestamp) == now - timestamp <= ttl_seconds

\* is_cache_valid: time.time() - timestamp < self.ttl_seconds
IsCacheValid(timestamp) == now - timestamp < ttl_seconds

\* del cache[key]
DictDel(dict, keys) == [k \in DOMAIN dict \ keys |-> dict[k]]

CacheInit(ttl) ==
    /\ ttl_seconds = ttl
    /\ session_state = <<>>
    /\ now = 0
    /\ cm_called = "none"
    /\ cm_key = <<>>
    /\ cm_result = <<>>
    /\ cm_before = <<>>
    /\ last_store = [k \in CacheKeys |-> <<>>]
    /\ cleared = {}

CacheIdle == CacheInit(DefaultTtlSeconds)

CacheManagerInit == \E ttl \in TtlValues : CacheInit(ttl)

\* cache_data(key, data)
CacheData(key, data) ==
    LET cache == SessionCache
        entry == [data |-> data, timestamp |-> now]
    IN  /\ session_state' =
               <<[k \in DOMAIN cache \cup {key} |->
                     IF k = key THEN entry ELSE cache[k]]>>
        /\ last_store' = [last_store EXCEPT ![key] = <<entry>>]
        /\ cleared' = cleared \ {key}
        /\ cm_called' = "cache_data"
        /\ cm_key' = <<key>>
        /\ cm_result' = <<>>
        /\ cm_before' = session_state
        /\ UNCHANGED <<ttl_seconds, now>>

CacheDataAny == \E key \in CacheKeys : \E data \in CachedValues :
                    CacheData(key, data)

\* get_cached_data that stamps the entry it serves with the time of the read.
GetCachedDataRefreshing(key) ==
    LET cache == SessionCache
        hit == key \in DOMAIN cache
        valid == hit /\ IsCacheValid(cache[key].timestamp)
    IN  /\ cm_result' = IF valid THEN <<cache[key].data>> ELSE <<>>
        /\ session_state' =
               IF hit /\ ~valid THEN <<DictDel(cache, {key})>>
               ELSE IF hit
               THEN <<[cache EXCEPT ![key].timestamp = now]>>
               ELSE session_state
        /\ cm_called' = "get_cached_data"
        /\ cm_key' = <<key>>
        /\ cm_before' = session_state
        /\ UNCHANGED <<ttl_seconds, now, last_store, cleared>>

\* get_cached_data(key): the entry's data when it is valid; an expired entry
\* is deleted from the session's dict and None is returned.
GetCachedData(key) ==
    LET cache == SessionCache
        hit == key \in DOMAIN cache
        valid == hit /\ IsCacheValid(cache[key].timestamp)
    IN  /\ cm_result' = IF valid THEN <<cache[key].data>> ELSE <<>>
        /\ session_state' =
               IF hit /\ ~valid THEN <<DictDel(cache, {key})>>
               ELSE session_state
        /\ cm_called' = "get_cached_data"
        /\ cm_key' = <<key>>
        /\ cm_before' = session_state
        /\ UNCHANGED <<ttl_seconds, now, last_store, cleared>>

GetCachedDataAny == \E key \in CacheKeys : GetCachedData(key)

\* clear_cache(pattern)
ClearCache(pattern) ==
    LET cache == SessionCache
        keys_to_remove ==
            IF pattern = <<>> THEN DOMAIN cache
            ELSE {key \in DOMAIN cache : IsSubstring(pattern[1], key)}
    IN  /\ session_state' =
               IF session_state = <<>> THEN <<>>
               ELSE <<DictDel(cache, keys_to_remove)>>
        /\ cleared' = cleared \cup keys_to_remove
        /\ cm_called' = "clear_cache"
        /\ cm_key' = pattern
        /\ cm_result' = <<>>
        /\ cm_before' = session_state
        /\ UNCHANGED <<ttl_seconds, now, last_store>>

ClearCacheAny == \E pattern \in Patterns : ClearCache(pattern)

\* A second passes between two calls.
Tick ==
    /\ now < MaxTime
    /\ now' = now + 1
    /\ cm_called' = "none"
    /\ cm_key' = <<>>
    /\ cm_result' = <<>>
    /\ cm_before' = <<>>
    /\ UNCHANGED <<ttl_seconds, session_state, last_store, cleared>>

\* The latest cache_data entry of the key of the call, <<>> without one.
LastStored == IF cm_key = <<>> THEN <<>> ELSE last_store[cm_key[1]]

\* Fewer than ttl_seconds have elapsed since the key's latest cache_data.
StoredAndFresh ==
    /\ LastStored # <<>>
    /\ now - LastStored[1].timestamp < ttl_seconds

\* C13: get_cached_data(key) returns the value most recently stored under
\* key by cache_data when fewer than ttl_seconds have elapsed since that
\* store and clear_cache has not removed the entry since, and None
\* otherwise; a value whose age is >= ttl_seconds is never returned.
C13_FreshUnlessCleared ==
    cm_called = "get_cached_data" =>
        /\ cm_result =
               IF StoredAndFresh /\ cm_key[1] \notin cleared
               THEN <<LastStored[1].data>> ELSE <<>>
        /\ cm_result # <<>> => StoredAndFresh

\* C13 as stated: the latest stored value is returned whenever fewer than
\* ttl_seconds have elapsed since the store, and None otherwise.
C13_FreshAlways ==
    cm_called = "get_cached_data" =>
        cm_result = IF StoredAndFresh THEN <<LastStored[1].data>> ELSE <<>>

\* A read returned a value that was stored a second or more before.
C13_Witness ==
    /\ cm_called = "get_cached_data"
    /\ cm_result # <<>>
    /\ now > LastStored[1].timestamp

\* The session's cache before the call, the empty dict without one.
CacheBefore == IF cm_before = <<>> THEN <<>> ELSE cm_before[1]

\* The entries of the keys are the same before and after the call.
EntriesKept(keys) ==
    \A k \in keys : k \in DOMAIN SessionCache /\ SessionCache[k] = CacheBefore[k]

\* C23: get_cached_data(key) removes the entry of key exactly when that
\* entry has expired (its age is ttl_seconds or more); the entries of all
\* other keys stay as they were, an entry that is served keeps its data and
\* its timestamp, and no entry appears.
C23_ReadRemovesOnlyExpired ==
    cm_called = "get_cached_data" =>
        LET key == cm_key[1]
            expired == /\ key \in DOMAIN CacheBefore
                       /\ now - CacheBefore[key].timestamp >= ttl_seconds
        IN  /\ DOMAIN SessionCache = DOMAIN CacheBefore \ (IF expired THEN {key} ELSE {})
            /\ EntriesKept(DOMAIN SessionCache)
            /\ (cm_before = <<>>) = (session_state = <<>>)

\* A read removed an expired entry and left the entry of another key.
C23_Witness ==
    /\ cm_called = "get_cached_data"
    /\ cm_key[1] \in DOMAIN CacheBefore
    /\ cm_key[1] \notin DOMAIN SessionCache
    /\ DOMAIN SessionCache # {}

\* The text of the key holds the text of the pattern at some position.
Contains(key, pattern) ==
    \/ pattern = <<>>
    \/ \E i \in 1..Len(key) :
           \A j \in 1..Len(pattern) :
               i + j - 1 <= Len(key) /\ key[i + j - 1] = pattern[j]

\* C24: clear_cache(pattern) deletes exactly the entries whose key contains
\* pattern and leaves every other entry as it was; clear_cache() leaves the
\* cache empty; on a session without a cache either call changes nothing.
C24_ClearRemovesMatching ==
    cm_called = "clear_cache" =>
        IF cm_before = <<>> THEN session_state = <<>>
        ELSE /\ session_state # <<>>
             /\ DOMAIN SessionCache =
                    IF cm_key = <<>> THEN {}
                    ELSE {k \in DOMAIN CacheBefore : ~Contains(k, cm_key[1])}
             /\ EntriesKept(DOMAIN SessionCache)

\* clear_cache with a pattern removed one entry and left another, whose key
\* does not contain the pattern.
C24_Witness ==
    /\ cm_called = "clear_cache"
    /\ cm_key # <<>>
    /\ DOMAIN SessionCache # {}
    /\ DOMAIN SessionCache # DOMAIN CacheBefore

\* ======================================================================
\* cached_function (src/utils/helpers.py)
\* ======================================================================
\* Wrapped functions are told apart by identity; the two of them share
\* their __name__.  An argument tuple has a value and the text str(args)
\* gives for it; two of the tuples share their text.  The md5 digest is kept
\* as the text it digests.  Python's None is the value PyNone.

PyNone == "None"

WrappedFunctions == {"f1", "f2"}

\* func.__name__
FuncName(func) == "f"

ArgTuples == {"a1", "a2", "b"}

\* get_cache_key: md5(str(args) + str(sorted(kwargs.items()))).hexdigest()
GetCacheKey(args) == IF args = "b" THEN "2" ELSE "1"

\* f"{func.__name__}_{cache_manager.get_cache_key(*args, **kwargs)}"
WrapperCacheKey(func, args) == <<FuncName(func), "_", GetCacheKey(args)>>

\* What the wrapped function computes: None for the argument tuple b,
\* otherwise a value of its own for each function and argument tuple.
FuncResult(func, args) ==
    IF args = "b" THEN PyNone
    ELSE IF func = "f1"
    THEN (IF args = "a1" THEN "f1(a1)" ELSE "f1(a2)")
    ELSE (IF args = "a1" THEN "f2(a1)" ELSE "f2(a2)")

VARIABLES
    cf,     \* the latest call of a wrapper: called (TRUE until time passes),
            \* func and args (the wrapped function and its arguments), result
            \* (what the wrapper returned), executed (whether the function's
            \* body ran) and prev_run (when the body last ran before for func
            \* and args, -1 if never)
    runs    \* history: <<func, args>> -> time of the latest run of the body

wrapperVars == <<cf, runs>>

NoWrapperCall ==
    [called |-> FALSE, func |-> "f1", args |-> "a1", result |-> PyNone,
     executed |-> FALSE, prev_run |-> -1]

WrapperIdle ==
    /\ cf = NoWrapperCall
    /\ runs = <<>>

\* The <<func, args, value>> the bodies of the wrapped functions computed.
Computed == {<<c[1], c[2], FuncResult(c[1], c[2])>> : c \in DOMAIN runs}

\* if cached_result is not None
WrapperHit(cached_key, cached_result) == cached_result # PyNone

\* wrapper(*args, **kwargs) of the wrapped function func: get_cached_data,
\* and on a miss the function's body and cache_data.
WrapperCall(func, args) ==
    LET cache_key == WrapperCacheKey(func, args)
        cache == SessionCache
        present == cache_key \in DOMAIN cache
        valid == present /\ IsCacheValid(cache[cache_key].timestamp)
        cached_result == IF valid THEN cache[cache_key].data ELSE PyNone
        after_get == IF present /\ ~valid THEN DictDel(cache, {cache_key})
                     ELSE cache
        hit == WrapperHit(valid, cached_result)
        result == FuncResult(func, args)
    IN  /\ cf' = [called |-> TRUE, func |-> func, args |-> args,
                   result |-> IF hit THEN cached_result ELSE result,
                   executed |-> ~hit,
                   prev_run |-> IF <<func, args>> \in DOMAIN runs
                                THEN runs[<<func, args>>] ELSE -1]
        /\ runs' = IF hit THEN runs
                   ELSE [c \in DOMAIN runs \cup {<<func, args>>} |->
                            IF c = <<func, args>> THEN now ELSE runs[c]]
        /\ session_state' =
               IF hit
               THEN session_state
               ELSE <<[k \in DOMAIN after_get \cup {cache_key} |->
                          IF k = cache_key
                          THEN [data |-> result, timestamp |-> now]
                          ELSE after_get[k]]>>
        /\ UNCHANGED <<ttl_seconds, now, cm_called, cm_key, cm_result,
                       cm_before, last_store, cleared>>

WrapperCallAny ==
    \E func \in WrappedFunctions : \E args \in ArgTuples :
        WrapperCall(func, args)

\* A second passes between two calls of wrappers.
WrapperTick ==
    /\ Tick
    /\ cf' = NoWrapperCall
    /\ UNCHANGED runs

\* C21: within ttl_seconds of a run of the wrapped function's body, a call
\* of the wrapper with equal arguments does not run the body again, whatever
\* value it returned.
C21_OneRunPerTtlWindow ==
    (cf.called /\ cf.executed /\ cf.prev_run >= 0) =>
        now - cf.prev_run >= ttl_seconds

\* C22: a wrapper only ever returns a value that its own function computed
\* for the same arguments.
C22_OwnValueOnly ==
    cf.called => <<cf.func, cf.args, cf.result>> \in Computed

\* ======================================================================
\* RecommendationEvaluator.evaluation_history (src/ml/evaluation.py)
\* ======================================================================

\* Most reports one evaluator collects.
MaxHistory == 2

\* Recommendation lists and ground truths handed to evaluate_recommendations.
HistoryRecLists == {<<[item_id |-> 2]>>, <<[item_id |-> 1], [item_id |-> 2]>>}

HistoryGroundTruths == {<<>>, <<[item_id |-> 1, rating |-> <<>>]>>}

\* user_profile: None, a non-empty dict, or an object whose truth value
\* raises (a pandas DataFrame, a numpy array).
UserProfiles == {"None", "dict", "frame"}

\* What the diversity, novelty, coverage and bias metrics yield for the
\* track metadata of the call, in hundredths: every section {} for metadata
\* the metrics fail on, or the values they give for the empty metadata.
SectionResults ==
    {[intra_list_diversity |-> <<>>, combined_novelty |-> <<>>,
      genre_coverage |-> <<>>, overall_bias_score |-> <<>>],
     [intra_list_diversity |-> <<0>>, combined_novelty |-> <<50>>,
      genre_coverage |-> <<0>>, overall_bias_score |-> <<0>>]}

VARIABLES
    evaluation_history,  \* self.evaluation_history
    eh,                  \* the call in progress: called ("none", "evaluate" or
                         \* "summary"), args (the arguments of
                         \* evaluate_recommendations), after (the objects
                         \* passed, as they are after the call), result (<<>>
                         \* for {}, else <<report>> or <<summary>>), before
                         \* (evaluation_history before the call) and n_recent
                         \* (the argument of get_evaluation_summary)
    eh_clock,            \* datetime.now(), in calls that read it
    returned             \* history: the non-empty reports returned so far

historyVars == <<evaluation_history, eh, eh_clock, returned>>

NoEvaluatorCall ==
    [called |-> "none", args |-> <<>>, after |-> <<>>, result |-> <<>>,
     before |-> <<>>, n_recent |-> 0]

HistoryIdle ==
    /\ evaluation_history = <<>>
    /\ eh = NoEvaluatorCall
    /\ eh_clock = 0
    /\ returned = <<>>

\* accuracy_metrics.get('f1', 0) in hundredths, rounded down; <<>> when the
\* accuracy section is {}.
F1Hundredths(accuracy_metrics) ==
    IF "f1" \notin accuracy_metrics.keys THEN <<>>
    ELSE <<(100 * accuracy_metrics.f1[1]) \div accuracy_metrics.f1[2]>>

\* The evaluation_results dict evaluate_recommendations builds.
EvaluationResults(recommendations, ground_truth, sections, user_profile) ==
    LET accuracy_metrics == AccuracyMetrics(recommendations, ground_truth)
        quality == OverallQualityScore(
            [f1 |-> F1Hundredths(accuracy_metrics),
             intra_list_diversity |-> sections.intra_list_diversity,
             combined_novelty |-> sections.combined_novelty,
             genre_coverage |-> sections.genre_coverage,
             overall_bias_score |-> sections.overall_bias_score])
    IN  [accuracy |-> accuracy_metrics,
         sections |-> sections,
         serendipity |-> user_profile = "dict",
         overall_score |-> quality[1],
         timestamp |-> eh_clock]

\* An evaluator that puts the newest report first.
HistoryInsertFirst(history, evaluation_results) == <<evaluation_results>> \o history

\* self.evaluation_history.append(evaluation_results)
HistoryAppend(history, evaluation_results) == Append(history, evaluation_results)

\* evaluate_recommendations: 'if user_profile:' raises for a profile without
\* a truth value, and the call returns {} before anything is stored.
EvaluateRecommendations(recommendations, ground_truth, sections, user_profile) ==
    LET args == [recommendations |-> recommendations,
                 ground_truth |-> ground_truth,
                 track_metadata |-> sections,
                 user_profile |-> user_profile]
        evaluation_results ==
            EvaluationResults(recommendations, ground_truth, sections,
                              user_profile)
        call == [called |-> "evaluate", args |-> args, after |-> args,
                 result |-> <<>>, before |-> evaluation_history,
                 n_recent |-> 0]
    IN  /\ eh.called = "none"
        /\ user_profile = "frame" \/ Len(evaluation_history) < MaxHistory
        /\ IF user_profile = "frame"
           THEN /\ eh' = call
                /\ UNCHANGED <<evaluation_history, eh_clock, returned>>
           ELSE /\ eh' = [call EXCEPT !.result = <<evaluation_results>>]
                /\ evaluation_history' =
                       HistoryAppend(evaluation_history, evaluation_results)
                /\ eh_clock' = eh_clock + 1
                /\ returned' = Append(returned, evaluation_results)

EvaluateRecommendationsAny ==
    \E recommendations \in HistoryRecLists :
    \E ground_truth \in HistoryGroundTruths :
    \E sections \in SectionResults :
    \E user_profile \in UserProfiles :
        EvaluateRecommendations(recommendations, ground_truth, sections,
                                user_profile)

\* np.mean(scores) if scores else 0, as the fraction <<sum, count>>.
MeanOr0(scores) ==
    IF scores = <<>> THEN <<0, 1>> ELSE <<SumSeq(scores), Len(scores)>>

\* np.polyfit(range(len(scores)), scores, 1)[0] if len(scores) > 1 else 0:
\* the least-squares slope, as a fraction.
TrendOr0(scores) ==
    LET n == Len(scores)
        sx == SumSeq([i \in 1..n |-> i - 1])
        sxx == SumSeq([i \in 1..n |-> (i - 1) * (i - 1)])
        sy == SumSeq(scores)
        sxy == SumSeq([i \in 1..n |-> (i - 1) * scores[i]])
    IN  IF n > 1 THEN <<n * sxy - sx * sy, n * sxx - sx * sx>> ELSE <<0, 1>>

\* The summary dict of get_evaluation_summary over recent_evaluations.
Summary(recent_evaluations) ==
    LET n == Len(recent_evaluations)
        quality_scores ==
            [i \in 1..n |-> recent_evaluations[i].overall_score]
        diversity_scores ==
            [i \in 1..n |->
                MetricOr0(recent_evaluations[i].sections.intra_list_diversity)]
        novelty_scores ==
            [i \in 1..n |->
                MetricOr0(recent_evaluations[i].sections.combined_novelty)]
        bias_scores ==
            [i \in 1..n |->
                MetricOr0(recent_evaluations[i].sections.overall_bias_score)]
    IN  [evaluation_count |-> n,
         avg_quality_score |-> MeanOr0(quality_scores),
         quality_trend |-> TrendOr0(quality_scores),
         avg_diversity_score |-> MeanOr0(diversity_scores),
         avg_novelty_score |-> MeanOr0(novelty_scores),
         avg_bias_score |-> MeanOr0(bias_scores),
         latest_evaluation |-> IF n > 0 THEN <<recent_evaluations[n]>>
                               ELSE <<>>]

\* get_evaluation_summary(n_recent)
GetEvaluationSummary(n_recent) ==
    /\ eh.called = "none"
    /\ eh' = [called |-> "summary", args |-> <<>>, after |-> <<>>,
              result |->
                  IF evaluation_history = <<>> THEN <<>>
                  ELSE <<Summary(PySliceFrom(evaluation_history, -n_recent))>>,
              before |-> evaluation_history,
              n_recent |-> n_recent]
    /\ UNCHANGED <<evaluation_history, eh_clock, returned>>

GetEvaluationSummaryAny ==
    \E n_recent \in (-1)..(MaxHistory + 1) : GetEvaluationSummary(n_recent)

\* The call returns.
HistoryReturn ==
    /\ eh.called # "none"
    /\ eh' = NoEvaluatorCall
    /\ UNCHANGED <<evaluation_history, eh_clock, returned>>

\* C25: get_evaluation_summary(n_recent) summarises the most recent
\* min(n_recent, len(evaluation_history)) evaluations: evaluation_count is
\* that number and never exceeds n_recent, latest_evaluation is the last
\* report appended, and the result is {} when no evaluation has been made.
C25_SummaryOfMostRecent ==
    eh.called = "summary" =>
        IF evaluation_history = <<>> THEN eh.result = <<>>
        ELSE /\ eh.result # <<>>
             /\ eh.result[1].evaluation_count
                    = Min2(eh.n_recent, Len(evaluation_history))
             /\ eh.result[1].evaluation_count <= eh.n_recent
             /\ eh.result[1].latest_evaluation
                    = <<evaluation_history[Len(evaluation_history)]>>

\* C26: evaluation_history holds exactly the non-empty reports returned so
\* far, in call order; a call that returns {} appends nothing, a call that
\* returns a report appends it after the earlier entries, which stay as they
\* were, and the recommendation list, ground truth and track metadata passed
\* are left as they were.
C26_HistoryIsReturnedReports ==
    /\ evaluation_history = returned
    /\ eh.called = "evaluate" =>
        /\ evaluation_history =
               IF eh.result = <<>> THEN eh.before
               ELSE Append(eh.before, eh.result[1])
        /\ eh.after = eh.args

\* A call returned {} on an evaluator that holds two reports.
C26_Witness ==
    /\ eh.called = "evaluate"
    /\ eh.result = <<>>
    /\ Len(evaluation_history) = 2
    /\ evaluation_history[1] # evaluation_history[2]

\* ======================================================================
\* ExplorationStrategy (src/ml/models.py)
\* ======================================================================
\* A recommendation is the dict {'item_id': i, 'score': 2.0}, a candidate
\* the dict {'item_id': i, 'score': 1.0}; epsilon is kept in tenths.

Strategies == {"epsilon_greedy", "thompson_sampling", "softmax"}

Epsilons == {0, 5, 10}

ExploreRec(item_id) == [item_id |-> item_id, score |-> 2]

ExploreCandidate(item_id) == [item_id |-> item_id, score |-> 1]

\* Recommendation lists of up to MaxN distinct items, in ascending id order.
ExploreRecLists ==
    {[i \in 1..Cardinality(S) |-> ExploreRec(SetToAscSeq(S)[i])] :
        S \in {T \in SUBSET Items : Cardinality(T) <= MaxN}}

\* Candidate pools of up to MaxPool entries in non-decreasing id order, a
\* candidate possibly twice.
ExplorePools ==
    UNION {{[i \in 1..l |-> ExploreCandidate(ids[i])] :
               ids \in {f \in [1..l -> PoolItems] :
                           \A i \in 1..(l - 1) : f[i] <= f[i + 1]}} :
           l \in 0..MaxPool}

VARIABLES
    strategy,      \* self.strategy
    epsilon,       \* self.epsilon, in tenths
    ex             \* the call of apply_exploration in progress: called,
                   \* recs and pool (the lists passed), result (the list
                   \* returned) and after (the list passed as
                   \* recommendations, as it is after the call)

exploreVars == <<strategy, epsilon, ex>>

NoExploreCall ==
    [called |-> FALSE, recs |-> <<>>, pool |-> <<>>, result |-> <<>>,
     after |-> <<>>]

ExploreInit(s, e) ==
    /\ strategy = s
    /\ epsilon = e
    /\ ex = NoExploreCall

\* ExplorationStrategy(): strategy='epsilon_greedy', epsilon=0.1
ExploreIdle == ExploreInit("epsilon_greedy", 1)

ExplorationStrategyInit ==
    \E s \in Strategies : \E e \in Epsilons : ExploreInit(s, e)

\* int(len(recommendations) * self.epsilon)
NExplore(recommendations) == (Len(recommendations) * epsilon) \div 10

\* The position sequences a draw of size positions with replacement gives.
RandomChoiceReplacing(n, size) == [1..size -> 1..n]

\* np.random.choice(..., size=size, replace=False) on n candidates: the
\* position sequences it can draw.
RandomChoice(n, size) == {c \in [1..size -> 1..n] : \A i, j \in 1..size : c[i] = c[j] => i = j}

\* _epsilon_greedy_exploration: the lists it can return.
EpsilonGreedyExploration(recommendations, candidate_pool) ==
    LET n_explore == NExplore(recommendations)
        n_exploit == Len(recommendations) - n_explore
        final_recommendations == PySliceTo(recommendations, n_exploit)
        recommended_ids == {recommendations[i].item_id :
                               i \in 1..Len(recommendations)}
        exploration_candidates ==
            SelectSeq(candidate_pool,
                      LAMBDA item : item.item_id \notin recommended_ids)
        size == Min2(n_explore, Len(exploration_candidates))
    IN  IF candidate_pool # <<>> /\ n_explore > 0
           /\ exploration_candidates # <<>>
        THEN {final_recommendations
                  \o [i \in 1..size |-> exploration_candidates[c[i]]] :
                 c \in RandomChoice(Len(exploration_candidates), size)}
        ELSE {final_recommendations}

\* _thompson_sampling_exploration: the noise on the scores can put the
\* entries in any order; the list passed is sorted in place and returned.
ThompsonSamplingExploration(recommendations) ==
    {[i \in 1..Len(recommendations) |-> recommendations[c[i]]] :
        c \in RandomChoice(Len(recommendations), Len(recommendations))}

\* apply_exploration(recommendations, candidate_pool)
ApplyExploration(recommendations, candidate_pool) ==
    /\ ~ex.called
    /\ \E result \in
           (IF strategy = "epsilon_greedy"
            THEN EpsilonGreedyExploration(recommendations, candidate_pool)
            ELSE IF strategy = "thompson_sampling"
            THEN ThompsonSamplingExploration(recommendations)
            ELSE {recommendations}) :
        ex' = [called |-> TRUE, recs |-> recommendations,
               pool |-> candidate_pool, result |-> result,
               after |-> IF strategy = "thompson_sampling" THEN result
                         ELSE recommendations]
    /\ UNCHANGED <<strategy, epsilon>>

ApplyExplorationAny ==
    \E recommendations \in ExploreRecLists :
    \E candidate_pool \in ExplorePools :
        ApplyExploration(recommendations, candidate_pool)

ExploreReturn ==
    /\ ex.called
    /\ ex' = NoExploreCall
    /\ UNCHANGED <<strategy, epsilon>>

\* The entries of the returned list after the first n.
ExploredTail(n) == SubSeq(ex.result, n + 1, Len(ex.result))

\* The entries of tail are the candidate-pool entries at pairwise distinct
\* positions, none with the item_id of a recommendation passed.
DistinctPoolEntries(tail) ==
    \E at \in [1..Len(tail) -> 1..Len(ex.pool)] :
        /\ \A i, j \in 1..Len(tail) : at[i] = at[j] => i = j
        /\ \A i \in 1..Len(tail) :
               /\ ex.pool[at[i]] = tail[i]
               /\ \A k \in 1..Len(ex.recs) :
                      ex.recs[k].item_id # tail[i].item_id

\* C27: with 'epsilon_greedy' and 0 <= epsilon <= 1 the first
\* len - int(len * epsilon) entries returned are the leading recommendations
\* passed, in their order; the remaining entries are pairwise distinct
\* entries of the candidate pool whose item_id is not among the
\* recommendations passed; the list is no longer than the one passed.  With
\* an unknown strategy name the list passed is returned as it was.
C27_ExploitPrefixExploreFresh ==
    ex.called =>
        /\ strategy = "epsilon_greedy" =>
            LET n_exploit == Len(ex.recs) - (Len(ex.recs) * epsilon) \div 10
            IN  /\ Len(ex.result) >= n_exploit
                /\ SubSeq(ex.result, 1, n_exploit)
                       = SubSeq(ex.recs, 1, n_exploit)
                /\ DistinctPoolEntries(ExploredTail(n_exploit))
                /\ Len(ex.result) <= Len(ex.recs)
                /\ ex.after = ex.recs
        /\ strategy \notin {"epsilon_greedy", "thompson_sampling"} =>
            /\ ex.result = ex.recs
            /\ ex.after = ex.recs

\* An epsilon-greedy call kept one recommendation and added one candidate,
\* of another item than the second recommendation passed.
C27_Witness ==
    /\ ex.called
    /\ strategy = "epsilon_greedy"
    /\ Len(ex.recs) = 2
    /\ Len(ex.result) = 2
    /\ ex.result[1] = ex.recs[1]
    /\ ex.result[2] \in {ex.pool[i] : i \in 1..Len(ex.pool)}
    /\ ex.result[2].item_id # ex.recs[2].item_id

\* ======================================================================
\* HybridRecommendationSystem.save_model / load_model (src/ml/models.py)
\* ======================================================================
\* A file path is kept as the sequence of its parts, so that
\* filepath.replace('.pkl', '_ncf.h5') can act on it.  load_model is called
\* on a fresh HybridRecommendationSystem(); from then on the fields of the
\* model are those of the fresh instance, and what the saving instance held
\* and answered is kept in saved.

FilePaths == {<<"model", ".pkl">>, <<"model", ".bin">>}

\* filepath.replace('.pkl', '_ncf.h5')
NcfPath(filepath) ==
    [i \in DOMAIN filepath |->
        IF filepath[i] = ".pkl" THEN "_ncf.h5" ELSE filepath[i]]

\* The requests recommend can be asked.
Requests == Users \X LikedLists \X (0..MaxN)

VARIABLES
    files,       \* the file system: path -> content, for the files written
    pm,          \* the latest call: called ("none", "save_model" or
                 \* "load_model"), path (its filepath) and raised (whether
                 \* its try block raised)
    saved        \* history: <<>> or <<[path, ncf_model, answers]>> of the
                 \* latest save_model: the saving instance's collaborative
                 \* model and what it returns for every request

persistVars == <<files, pm, saved>>

PersistIdle ==
    /\ files = <<>>
    /\ pm = [called |-> "none", path |-> <<"model", ".pkl">>,
             raised |-> FALSE]
    /\ saved = <<>>

\* model_data of save_model; self.weights is the default of __init__.
ModelData ==
    [weights |-> [collaborative |-> WeightCollaborative,
                  content |-> WeightContent,
                  popularity |-> WeightPopularity],
     user_encoder |-> user_encoder,
     item_encoder |-> item_encoder,
     content_model |-> [fitted |-> content_fitted,
                        item_ids |-> content_item_ids,
                        similarity_matrix |-> similarity_matrix],
     popularity_model |-> item_popularity]

\* 'if self.ncf_model and self.ncf_model.model': the regressor exists.
HasRegressor == ncf_model \in {"trained", "untrained"}

\* save_model(filepath): the pickle is written; the regressor, an
\* MLPRegressor, has no save method, so the NCF step raises and the handler
\* logs it.
SaveModel(filepath) ==
    /\ pm.called # "load_model" /\ ~rec_called
    /\ files' = [p \in DOMAIN files \cup {filepath} |->
                     IF p = filepath THEN ModelData ELSE files[p]]
    /\ pm' = [called |-> "save_model", path |-> filepath,
              raised |-> HasRegressor]
    /\ saved' = <<[path |-> filepath,
                   ncf_model |-> ncf_model,
                   answers |-> [r \in Requests |->
                                   RecommendCall(r[1], r[2], r[3]).value]]>>
    /\ UNCHANGED hybridVars

SaveModelAny == \E filepath \in FilePaths : SaveModel(filepath)

\* The ncf_model of the fresh instance after load_model: None unless the
\* NCF path exists; then a NeuralCollaborativeFiltering without a regressor,
\* since keras is not defined in the module.
LoadedNcfModel(filepath) == IF NcfPath(filepath) \in DOMAIN files THEN "unbuilt" ELSE "None"

\* load_model(filepath) on a fresh HybridRecommendationSystem().
LoadModel(filepath) ==
    /\ pm.called # "load_model" /\ ~rec_called
    /\ pm' = [called |-> "load_model", path |-> filepath,
              raised |-> filepath \notin DOMAIN files
                            \/ NcfPath(filepath) \in DOMAIN files]
    /\ IF filepath \notin DOMAIN files
       THEN /\ ncf_model' = "None"
            /\ ncf_predictions' = <<>>
            /\ user_encoder' = <<>>
            /\ item_encoder' = <<>>
            /\ content_fitted' = FALSE
            /\ content_item_ids' = <<>>
            /\ similarity_matrix' = <<>>
            /\ item_popularity' = <<>>
       ELSE LET model_data == files[filepath]
            IN  /\ user_encoder' = model_data.user_encoder
                /\ item_encoder' = model_data.item_encoder
                /\ content_fitted' = model_data.content_model.fitted
                /\ content_item_ids' = model_data.content_model.item_ids
                /\ similarity_matrix' =
                       model_data.content_model.similarity_matrix
                /\ item_popularity' = model_data.popularity_model
                /\ ncf_model' = LoadedNcfModel(filepath)
                /\ ncf_predictions' =
                       IF ncf_model' = "trained" THEN ncf_predictions
                       ELSE <<>>
    /\ UNCHANGED <<files, saved>>
    /\ UNCHANGED recVars

LoadModelAny == \E filepath \in FilePaths : LoadModel(filepath)

\* C28: after save_model(path) on a fitted system and load_model(path) on a
\* fresh instance, the fresh instance holds the saved weights, encoders,
\* content model and popularity model and a usable collaborative model, and
\* recommend returns for every request what the saving system returned.
C28_LoadRestoresSavedSystem ==
    (/\ pm.called = "load_model"
     /\ saved # <<>>
     /\ saved[1].path = pm.path
     /\ saved[1].ncf_model = "trained") =>
        /\ ModelData = files[pm.path]
        /\ ncf_model = "trained"
        /\ \A r \in Requests :
               RecommendCall(r[1], r[2], r[3]).value = saved[1].answers[r]

\* ======================================================================
\* DiversityInjector.fit called again (src/ml/debiasing.py)
\* ======================================================================
VARIABLES
    latest_fit     \* history: <<>> or <<user_interactions>> of the latest fit

refitVars == <<latest_fit>>

RefitIdle == latest_fit = <<>>

\* fit(user_interactions, track_metadata), with its argument remembered.
FitInjectorAgain ==
    \E S \in SUBSET Users :
        \E user_interactions \in [S -> InteractionLists] :
            /\ FitInjector(user_interactions)
            /\ latest_fit' = <<user_interactions>>

\* C29: after any sequence of fit calls the users with a profile are exactly
\* the keys of the user_interactions of the latest call, each profile is
\* built from that call's interactions, and inject_diversity returns the
\* list it was given for a user who is not among those keys.
C29_ProfilesOfLatestFitOnly ==
    latest_fit # <<>> =>
        /\ DOMAIN user_profiles = DOMAIN latest_fit[1]
        /\ \A u \in DOMAIN user_profiles \cap DOMAIN latest_fit[1] :
               user_profiles[u] = BuildUserProfile(latest_fit[1][u])
        /\ (tr_called = "inject_diversity"
              /\ tr_user \notin DOMAIN latest_fit[1]) =>
               tr_same_list /\ tr_returned = tr_input

\* ======================================================================
\* Specifications
\* ======================================================================
vars ==
    <<hybridVars, contentCallVars, evalVars, transformVars, cacheVars,
      wrapperVars, historyVars, exploreVars, persistVars, refitVars>>

notHybrid ==
    <<contentCallVars, evalVars, transformVars, cacheVars, wrapperVars,
      historyVars, exploreVars, persistVars, refitVars>>
notEval ==
    <<hybridVars, contentCallVars, transformVars, cacheVars, wrapperVars,
      historyVars, exploreVars, persistVars, refitVars>>
notTransforms ==
    <<hybridVars, contentCallVars, evalVars, cacheVars, wrapperVars,
      historyVars, exploreVars, persistVars, refitVars>>
notCache ==
    <<hybridVars, contentCallVars, evalVars, transformVars, wrapperVars,
      historyVars, exploreVars, persistVars, refitVars>>
notWrapper ==
    <<hybridVars, contentCallVars, evalVars, transformVars, historyVars,
      exploreVars, persistVars, refitVars>>
notHistory ==
    <<hybridVars, contentCallVars, evalVars, transformVars, cacheVars,
      wrapperVars, exploreVars, persistVars, refitVars>>
notExplore ==
    <<hybridVars, contentCallVars, evalVars, transformVars, cacheVars,
      wrapperVars, historyVars, persistVars, refitVars>>
notContent ==
    <<evalVars, transformVars, cacheVars, wrapperVars, historyVars,
      exploreVars, persistVars, refitVars>>
notPersist ==
    <<contentCallVars, evalVars, transformVars, cacheVars, wrapperVars,
      historyVars, exploreVars, refitVars>>
notRefit ==
    <<hybridVars, contentCallVars, evalVars, cacheVars, wrapperVars,
      historyVars, exploreVars, persistVars>>

\* The blender on its own.
NextHybrid ==
    \/ FitAny /\ UNCHANGED notHybrid
    \/ FitFailsAny /\ UNCHANGED notHybrid
    \/ RecommendAny /\ UNCHANGED notHybrid
    \/ RecommendReturn /\ UNCHANGED notHybrid

InitHybrid == HybridInit /\ ContentIdle /\ EvalInit /\ TransformsIdle /\ CacheIdle /\ WrapperIdle /\ HistoryIdle /\ ExploreIdle /\ PersistIdle /\ RefitIdle

SpecHybrid == InitHybrid /\ [][NextHybrid]_vars

\* The evaluator on its own.
NextEval ==
    \/ CalculateGiniCoefficient /\ UNCHANGED notEval
    \/ CalculateNdcg /\ UNCHANGED notEval
    \/ CalculateAccuracyMetrics /\ UNCHANGED notEval
    \/ CalculateOverallQualityScore /\ UNCHANGED notEval
    \/ EvalReturn /\ UNCHANGED notEval

InitEval == HybridInit /\ ContentIdle /\ EvalInit /\ TransformsIdle /\ CacheIdle /\ WrapperIdle /\ HistoryIdle /\ ExploreIdle /\ PersistIdle /\ RefitIdle

SpecEval == InitEval /\ [][NextEval]_vars

\* A DiversityInjector of any explored strength, fitted and called.
NextInject ==
    \/ FitInjectorAny /\ UNCHANGED notTransforms
    \/ InjectDiversityAny /\ UNCHANGED notTransforms
    \/ TransformReturn /\ UNCHANGED notTransforms

InitInject == HybridInit /\ ContentIdle /\ EvalInit /\ InjectorInit /\ CacheIdle /\ WrapperIdle /\ HistoryIdle /\ ExploreIdle /\ PersistIdle /\ RefitIdle

SpecInject == InitInject /\ [][NextInject]_vars

\* A PopularityDebiaser of any explored strength, fitted and called.
NextDebias ==
    \/ FitDebiaserAny /\ UNCHANGED notTransforms
    \/ DebiasScoresAny /\ UNCHANGED notTransforms
    \/ TransformReturn /\ UNCHANGED notTransforms

InitDebias == HybridInit /\ ContentIdle /\ EvalInit /\ DebiaserInit /\ CacheIdle /\ WrapperIdle /\ HistoryIdle /\ ExploreIdle /\ PersistIdle /\ RefitIdle

SpecDebias == InitDebias /\ [][NextDebias]_vars

\* A FairnessConstraintEnforcer of any explored ratio, fitted and called.
NextFairness ==
    \/ FitEnforcerAny /\ UNCHANGED notTransforms
    \/ EnforceFairnessAny /\ UNCHANGED notTransforms
    \/ TransformReturn /\ UNCHANGED notTransforms

InitFairness == HybridInit /\ ContentIdle /\ EvalInit /\ EnforcerInit /\ CacheIdle /\ WrapperIdle /\ HistoryIdle /\ ExploreIdle /\ PersistIdle /\ RefitIdle

SpecFairness == InitFairness /\ [][NextFairness]_vars

\* An AdversarialDebiaser, trained and called.
NextAdversarial ==
    \/ TrainBiasDetectorAny /\ UNCHANGED notTransforms
    \/ ApplyAdversarialDebiasingAny /\ UNCHANGED notTransforms
    \/ TransformReturn /\ UNCHANGED notTransforms

InitAdversarial == HybridInit /\ ContentIdle /\ EvalInit /\ TransformsIdle /\ CacheIdle /\ WrapperIdle /\ HistoryIdle /\ ExploreIdle /\ PersistIdle /\ RefitIdle

SpecAdversarial == InitAdversarial /\ [][NextAdversarial]_vars

\* The cache manager on its own, with the clock.
NextCache ==
    \/ CacheDataAny /\ UNCHANGED notCache
    \/ GetCachedDataAny /\ UNCHANGED notCache
    \/ ClearCacheAny /\ UNCHANGED notCache
    \/ Tick /\ UNCHANGED notCache

InitCache ==
    /\ HybridInit /\ ContentIdle /\ EvalInit /\ TransformsIdle
    /\ CacheManagerInit /\ WrapperIdle /\ HistoryIdle /\ ExploreIdle /\ PersistIdle /\ RefitIdle

SpecCache == InitCache /\ [][NextCache]_vars

\* The content-based filter on its own.
NextContent ==
    \/ FitContentAny /\ UNCHANGED notContent
    \/ GetSimilarItemsAny /\ UNCHANGED notContent
    \/ RecommendForUserAny /\ UNCHANGED notContent
    \/ ContentReturn /\ UNCHANGED notContent

InitContent ==
    HybridInit /\ ContentIdle /\ EvalInit /\ TransformsIdle /\ CacheIdle /\ WrapperIdle /\ HistoryIdle /\ ExploreIdle /\ PersistIdle /\ RefitIdle

SpecContent == InitContent /\ [][NextContent]_vars

\* Functions wrapped with cached_function, called as time passes.
NextWrapper ==
    \/ WrapperCallAny /\ UNCHANGED notWrapper
    \/ WrapperTick /\ UNCHANGED notWrapper

InitWrapper ==
    /\ HybridInit /\ ContentIdle /\ EvalInit /\ TransformsIdle
    /\ CacheManagerInit /\ WrapperIdle /\ HistoryIdle /\ ExploreIdle /\ PersistIdle /\ RefitIdle

SpecWrapper == InitWrapper /\ [][NextWrapper]_vars

\* One evaluator: evaluations and summaries of its history.
NextHistory ==
    \/ EvaluateRecommendationsAny /\ UNCHANGED notHistory
    \/ GetEvaluationSummaryAny /\ UNCHANGED notHistory
    \/ HistoryReturn /\ UNCHANGED notHistory

InitHistory ==
    /\ HybridInit /\ ContentIdle /\ EvalInit /\ TransformsIdle
    /\ CacheIdle /\ WrapperIdle /\ HistoryIdle /\ ExploreIdle /\ PersistIdle /\ RefitIdle

SpecHistory == InitHistory /\ [][NextHistory]_vars

\* One exploration strategy applied to recommendation lists.
NextExplore ==
    \/ ApplyExplorationAny /\ UNCHANGED notExplore
    \/ ExploreReturn /\ UNCHANGED notExplore

InitExplore ==
    /\ HybridInit /\ ContentIdle /\ EvalInit /\ TransformsIdle
    /\ CacheIdle /\ WrapperIdle /\ HistoryIdle /\ ExplorationStrategyInit
    /\ PersistIdle /\ RefitIdle

SpecExplore == InitExplore /\ [][NextExplore]_vars

\* A system that is fitted and then saved, and a fresh one that loads.
NextPersist ==
    \/ pm.called = "none" /\ FitAny /\ UNCHANGED notHybrid
    \/ pm.called = "none" /\ FitFailsAny /\ UNCHANGED notHybrid
    \/ SaveModelAny /\ UNCHANGED notPersist
    \/ LoadModelAny /\ UNCHANGED notPersist

InitPersist ==
    /\ HybridInit /\ ContentIdle /\ EvalInit /\ TransformsIdle
    /\ CacheIdle /\ WrapperIdle /\ HistoryIdle /\ ExploreIdle /\ PersistIdle /\ RefitIdle

SpecPersist == InitPersist /\ [][NextPersist]_vars

\* A DiversityInjector of the default strength, fitted again and again.
NextRefit ==
    \/ FitInjectorAgain /\ UNCHANGED notRefit
    \/ InjectDiversityAny /\ UNCHANGED notTransforms
    \/ TransformReturn /\ UNCHANGED notTransforms

InitRefit ==
    /\ HybridInit /\ ContentIdle /\ EvalInit /\ TransformsIdle
    /\ CacheIdle /\ WrapperIdle /\ HistoryIdle /\ ExploreIdle
    /\ PersistIdle /\ RefitIdle

SpecRefit == InitRefit /\ [][NextRefit]_vars

====
